---------------------------- MODULE Spec2Model ----------------------------
(***************************************************************************)
(* A model of mw-mcp-server: the per-tenant FAISS index and its registry,  *)
(* the permission-filtered vector search tool, the tool dispatch registry, *)
(* and the chat route's LLM/tool loop behind the daily token quota.        *)
(*                                                                         *)
(* Each component has its own specification over its own variables; the    *)
(* variables of the other components stay at their initial value.          *)
(***************************************************************************)
EXTENDS Integers, Sequences, FiniteSets, TLC

(***************************************************************************)
(* Bounds of the model.                                                    *)
(***************************************************************************)
MaxDocs == 3        \* chunks held by the index handed to one search
MaxK == 2           \* largest k a search is asked for
MaxIds == 2         \* ids the loaded tenant indexes have handed out, in all
MaxBatch == 2       \* tool calls in one model response
MaxDate == 2        \* calendar days the clock runs through
DailyTokenLimit == 3    \* settings.daily_token_limit, scaled down
MaxTxn == 2         \* database transactions that record usage
MaxNextId == 3      \* ids one index hands out
MaxRows == 3        \* rows of the embeddings table
MaxChunks == 2      \* chunks of one posted page
MaxUpIds == 3       \* ids the index shared by two requests hands out
MaxTurnCalls == 2   \* llm.chat calls of one of two concurrent requests
MaxMessages == 4    \* chat_message rows of one session
MaxJobs == 3        \* jobs put on the embedding queue

(***************************************************************************)
(* Data: page titles with their MediaWiki namespace, embedding vectors.    *)
(***************************************************************************)
NS_MAIN == 0
NS_CATEGORY == 14

Titles == {"Alpha", "Beta", "Category:Science"}

NsOf(title) == IF title = "Category:Science" THEN NS_CATEGORY ELSE NS_MAIN

\* Two-dimensional integer vectors stand for the float embeddings.
DocVecs == {<<1, 1>>, <<-1, 0>>}
QueryVecs == {<<1, 0>>, <<0, 2>>}

\* IndexedDocument: the fields the search path reads.
Docs == [page_title : Titles, namespace : {NS_MAIN, NS_CATEGORY}]

DocOf(title) == [page_title |-> title, namespace |-> NsOf(title)]

Dot(a, b) == a[1] * b[1] + a[2] * b[2]

Norm2(a) == Dot(a, a)

Sgn(x) == IF x > 0 THEN 1 ELSE IF x < 0 THEN -1 ELSE 0

\* Inner product of the L2-normalised vectors compared without roots:
\* cos(v, q) = Dot(v, q) / sqrt(Norm2(v) * Norm2(q)); for one query q,
\* cos(v1, q) >= cos(v2, q) iff the signed squares below compare so.
SignedSq(v, q) == Sgn(Dot(v, q)) * Dot(v, q) * Dot(v, q)

ScoreGeq(v1, v2, q) == SignedSq(v1, q) * Norm2(v2) >= SignedSq(v2, q) * Norm2(v1)

\* The sign of the score FAISS reports for v against query q.
ScoreSign(v, q) == Sgn(Dot(v, q))

(***************************************************************************)
(* FaissIndex (embeddings/index.py).  An index value is a record           *)
(*   vectors : id -> vector   (the ids held by the IndexIDMap2; the empty  *)
(*                             function with built = FALSE is _index None) *)
(*   built   : _index is not None                                          *)
(*   doc_map : id -> IndexedDocument                                       *)
(*   next_id : the id counter                                              *)
(***************************************************************************)
EmptyFn == [x \in {} |-> 0]

NewFaissIndex == [built |-> FALSE, vectors |-> EmptyFn, doc_map |-> EmptyFn, next_id |-> 0]

\* add_documents: docs and embeddings are sequences of equal length.
AddDocuments(idx, docs, embeddings) ==
    IF Len(docs) = 0 THEN idx
    ELSE LET ids == idx.next_id .. (idx.next_id + Len(docs) - 1)
         IN  [built   |-> TRUE,
              vectors |-> [i \in (DOMAIN idx.vectors) \cup ids |->
                              IF i \in ids THEN embeddings[i - idx.next_id + 1]
                              ELSE idx.vectors[i]],
              doc_map |-> [i \in (DOMAIN idx.doc_map) \cup ids |->
                              IF i \in ids THEN docs[i - idx.next_id + 1]
                              ELSE idx.doc_map[i]],
              next_id |-> idx.next_id + Len(docs)]

\* The ranked id lists IndexIDMap2.search(q, k) can report: the k best ids
\* by inner product, best first; equal scores come in either order.
RankedIds(vectors, q, k) ==
    LET n == IF Cardinality(DOMAIN vectors) < k THEN Cardinality(DOMAIN vectors) ELSE k
    IN  { s \in [1..n -> DOMAIN vectors] :
            /\ \A i, j \in 1..n : i # j => s[i] # s[j]
            /\ \A i, j \in 1..n : i < j => ScoreGeq(vectors[s[i]], vectors[s[j]], q)
            /\ \A x \in DOMAIN vectors :
                  (\A i \in 1..n : s[i] # x) =>
                      \A i \in 1..n : ScoreGeq(vectors[s[i]], vectors[x], q) }

RECURSIVE SearchHits(_, _, _)
\* search's loop over the reported ids: an id without a doc_map entry is
\* skipped; a hit is the document with its score (kept as the score's sign).
SearchHits(ids, idx, q) ==
    IF ids = <<>> THEN <<>>
    ELSE LET rest == SearchHits(Tail(ids), idx, q)
         IN  IF Head(ids) \in DOMAIN idx.doc_map
             THEN <<[id   |-> Head(ids),
                     doc  |-> idx.doc_map[Head(ids)],
                     sign |-> ScoreSign(idx.vectors[Head(ids)], q)]>> \o rest
             ELSE rest

\* FaissIndex.search(query_emb, k): the result lists it can return.
FaissSearch(idx, q, k) ==
    IF ~idx.built \/ DOMAIN idx.doc_map = {} THEN {<<>>}
    ELSE { SearchHits(s, idx, q) : s \in RankedIds(idx.vectors, q, k) }

(***************************************************************************)
(* Tenant ids and storage paths (tenants.py).  A wiki id is a sequence of  *)
(* one-character strings.                                                  *)
(***************************************************************************)
WIKI_ID_MAX_LEN == 64

\* Characters of the class [a-zA-Z0-9_-] that the model's ids use.
WordChars == {"a", "b", "A", "0", "_", "-"}

Whitespace == {" "}

RECURSIVE StripLeft(_)
StripLeft(v) ==
    IF v # <<>> /\ Head(v) \in Whitespace THEN StripLeft(Tail(v)) ELSE v

RECURSIVE StripRight(_)
StripRight(v) ==
    IF v # <<>> /\ v[Len(v)] \in Whitespace
    THEN StripRight(SubSeq(v, 1, Len(v) - 1))
    ELSE v

\* v.strip()
Strip(v) == StripRight(StripLeft(v))

\* WIKI_ID_PATTERN.match(v)
MatchesPattern(v) ==
    /\ Len(v) >= 1
    /\ Len(v) <= WIKI_ID_MAX_LEN
    /\ \A i \in 1..Len(v) : v[i] \in WordChars

\* ".." in v or "/" in v or "\\" in v
PathLike(v) ==
    \/ \E i \in 1..Len(v) : v[i] \in {"/", "\\"}
    \/ \E i \in 1..(Len(v) - 1) : v[i] = "." /\ v[i + 1] = "."

\* TenantContext.validate_wiki_id: the id is accepted (it does not raise).
ValidWikiId(v) ==
    /\ v # <<>>
    /\ MatchesPattern(Strip(v))
    /\ ~PathLike(Strip(v))

\* get_tenant_data_path: data root / tenant.wiki_id, the validated value.
TenantDataPath(wiki_id) == Strip(wiki_id)

(***************************************************************************)
(* FaissIndex: the other mutators and persistence (embeddings/index.py).   *)
(* The files of a data path are [index_file, vectors, meta_file, next_id,  *)
(* doc_map, corrupt]; corrupt names what cannot be read back: "none",      *)
(* "index" (the index file), "meta_json" (the metadata file is not JSON),  *)
(* "meta_docs" (JSON whose doc_map entries do not build a document).       *)
(***************************************************************************)
Restrict(f, S) == [x \in S |-> f[x]]

\* rebuild: drop the index, the map and the counter, then add_documents.
Rebuild(idx, embeddings, docs) == AddDocuments(NewFaissIndex, docs, embeddings)

\* Mutant of delete_page: the page's first chunk stays.
DeletePage_KeepsFirst(idx, page_title) ==
    LET ids == {i \in DOMAIN idx.doc_map : idx.doc_map[i].page_title = page_title}
        ids_to_remove == {i \in ids : \E j \in ids : j < i}
    IN  IF ~idx.built \/ ids_to_remove = {} THEN idx
        ELSE [idx EXCEPT
                !.vectors = [x \in DOMAIN idx.vectors \ ids_to_remove |-> idx.vectors[x]],
                !.doc_map = [x \in DOMAIN idx.doc_map \ ids_to_remove |-> idx.doc_map[x]]]

\* delete_page: all chunks of the page leave the index and the map.
DeletePage(idx, page_title) ==
    LET ids_to_remove == {i \in DOMAIN idx.doc_map : idx.doc_map[i].page_title = page_title}
    IN  IF ~idx.built \/ ids_to_remove = {} THEN idx
        ELSE [idx EXCEPT
                !.vectors = Restrict(idx.vectors, DOMAIN idx.vectors \ ids_to_remove),
                !.doc_map = Restrict(idx.doc_map, DOMAIN idx.doc_map \ ids_to_remove)]

NoFiles ==
    [index_file |-> FALSE, vectors |-> EmptyFn,
     meta_file |-> FALSE, next_id |-> 0, doc_map |-> EmptyFn, corrupt |-> "none"]

\* What can go wrong while save writes: nothing, faiss.write_index raises,
\* or writing the metadata file raises.
SaveFaults == {"none", "index", "meta"}

\* save raises FaissPersistenceError: never when _index is None.
SaveRaises(idx, fault) == idx.built /\ fault # "none"

\* save: nothing when _index is None, else the index file is written and
\* then the metadata file; a write that raises leaves its file as it was.
Save(idx, files, fault) ==
    IF ~idx.built \/ fault = "index" THEN files
    ELSE IF fault = "meta"
    THEN [files EXCEPT !.index_file = TRUE, !.vectors = idx.vectors,
                       !.corrupt = IF @ = "index" THEN "none" ELSE @]
    ELSE [index_file |-> TRUE, vectors |-> idx.vectors,
          meta_file |-> TRUE, next_id |-> idx.next_id, doc_map |-> idx.doc_map,
          corrupt |-> "none"]

\* load raises FaissPersistenceError: the index file or the metadata file
\* is there and cannot be read back.
LoadRaises(files) ==
    /\ files.index_file
    /\ \/ files.corrupt = "index"
       \/ files.meta_file /\ files.corrupt \in {"meta_json", "meta_docs"}

\* load: the index it leaves behind, whether it returned or raised.  No
\* index file, nothing; no metadata file, an empty map.  read_index raising
\* leaves everything; json.load raising leaves the FAISS index read and the
\* map and counter as they were; a doc_map entry that does not build leaves
\* the counter of the file assigned as well.
Load(idx, files) ==
    IF ~files.index_file \/ files.corrupt = "index" THEN idx
    ELSE IF ~files.meta_file
    THEN [built |-> TRUE, vectors |-> files.vectors, doc_map |-> EmptyFn, next_id |-> 0]
    ELSE IF files.corrupt = "meta_json"
    THEN [idx EXCEPT !.built = TRUE, !.vectors = files.vectors]
    ELSE IF files.corrupt = "meta_docs"
    THEN [idx EXCEPT !.built = TRUE, !.vectors = files.vectors, !.next_id = files.next_id]
    ELSE [built |-> TRUE, vectors |-> files.vectors,
          doc_map |-> files.doc_map, next_id |-> files.next_id]

(***************************************************************************)
(* The tenant index registry (embeddings/registry.py).                     *)
(***************************************************************************)
FilesAt(dsk, path) == IF path \in DOMAIN dsk THEN dsk[path] ELSE NoFiles

\* get_tenant_index for an id that validates: the registry afterwards.
\* The index handed out is the entry at wiki_id.  An exception of
\* index.load() is caught and passed over, and the index is registered as
\* load left it.
GetTenantIndex(reg, dsk, wiki_id) ==
    IF wiki_id \in DOMAIN reg THEN reg
    ELSE [w \in DOMAIN reg \cup {wiki_id} |->
            IF w = wiki_id
            THEN Load(NewFaissIndex, FilesAt(dsk, TenantDataPath(wiki_id)))
            ELSE reg[w]]

\* index.save() of the entry at wiki_id: the disk afterwards.
SaveEntry(reg, dsk, wiki_id, fault) ==
    LET path == TenantDataPath(wiki_id)
        files == Save(reg[wiki_id], FilesAt(dsk, path), fault)
    IN  IF files = NoFiles THEN dsk
        ELSE [p \in DOMAIN dsk \cup {path} |-> IF p = path THEN files ELSE dsk[p]]

RECURSIVE SaveAllTenantIndexes_StopsAtFailure(_, _, _, _)
\* Mutant of save_all_tenant_indexes: the first save that raises ends it.
SaveAllTenantIndexes_StopsAtFailure(reg, dsk, order, faults) ==
    IF order = <<>> \/ SaveRaises(reg[Head(order)], faults[Head(order)])
    THEN [disk |-> dsk, count |-> 0]
    ELSE LET rest == SaveAllTenantIndexes_StopsAtFailure(
                        reg, SaveEntry(reg, dsk, Head(order), faults[Head(order)]),
                        Tail(order), faults)
         IN  [disk |-> rest.disk, count |-> rest.count + 1]

RECURSIVE SaveAllTenantIndexes(_, _, _, _)
\* save_all_tenant_indexes: the entries are saved one after another, in the
\* order of the dict; a save that raises is passed over and not counted.
\* The disk afterwards and the count returned.
SaveAllTenantIndexes(reg, dsk, order, faults) ==
    IF order = <<>> THEN [disk |-> dsk, count |-> 0]
    ELSE LET w == Head(order)
             rest == SaveAllTenantIndexes(
                        reg, SaveEntry(reg, dsk, w, faults[w]), Tail(order), faults)
         IN  [disk |-> rest.disk,
              count |-> rest.count + IF SaveRaises(reg[w], faults[w]) THEN 0 ELSE 1]

\* save_all_tenant_indexes when no write fails: the disk afterwards.
SaveEntries(reg, dsk, order) ==
    SaveAllTenantIndexes(reg, dsk, order, [w \in DOMAIN reg |-> "none"]).disk

(***************************************************************************)
(* The permission-filtered search tool (tools/search_tools.py).            *)
(***************************************************************************)
\* Mutants of filter_by_namespace: no namespace test; an empty list read as
\* "no restriction".
FilterByNamespace_NoTest(results, allowed) ==
    IF allowed = {} THEN <<>> ELSE results

FilterByNamespace_EmptyIsAll(results, allowed) ==
    IF allowed = {} THEN results
    ELSE LET InAllowed(hit) == hit.doc.namespace \in allowed
         IN  SelectSeq(results, InAllowed)

\* filter_by_namespace(results, allowed_namespaces)
FilterByNamespace(results, allowed) ==
    IF allowed = {} THEN <<>>
    ELSE LET InAllowed(hit) == hit.doc.namespace \in allowed
         IN  SelectSeq(results, InAllowed)

\* candidates = ns_filtered[:k * 2]
TopCandidates(ns_filtered, k) ==
    IF Len(ns_filtered) <= 2 * k THEN ns_filtered ELSE SubSeq(ns_filtered, 1, 2 * k)

\* titles_to_check = [doc.page_title for doc, _ in candidates]
TitlesToCheck(candidates) == [i \in 1..Len(candidates) |-> candidates[i].doc.page_title]

SeqRange(s) == {s[i] : i \in 1..Len(s)}

\* MediaWikiClient.check_read_access: the collaborator's "access" object is a
\* partial map; every requested title gets an answer, False when missing.
CheckReadAccess(titles, raw) ==
    [t \in SeqRange(titles) |-> IF t \in DOMAIN raw THEN raw[t] ELSE FALSE]

\* access_map.get(doc.page_title, False)
AccessGranted(access_map, title) ==
    IF title \in DOMAIN access_map THEN access_map[title] ELSE FALSE

RECURSIVE CollectResults_NoBreak(_, _, _, _)
\* Mutant of the loop: the stop at k results is missing.
CollectResults_NoBreak(candidates, access_map, k, results) ==
    IF candidates = <<>> THEN [kind |-> "return", results |-> results, error |-> ""]
    ELSE LET hit == Head(candidates)
         IN  IF ~AccessGranted(access_map, hit.doc.page_title)
             THEN CollectResults_NoBreak(Tail(candidates), access_map, k, results)
             ELSE IF hit.sign < 0
             THEN [kind |-> "raise", results |-> <<>>, error |-> "serialize"]
             ELSE CollectResults_NoBreak(Tail(candidates), access_map, k, Append(results, hit))

RECURSIVE CollectResults(_, _, _, _)
\* The loop over the candidates: a denied title is skipped; building a
\* ToolSearchResult (score: ge=0.0) from a negative score raises, which the
\* tool re-raises as ValueError; the loop stops at k results.
CollectResults(candidates, access_map, k, results) ==
    IF candidates = <<>> THEN [kind |-> "return", results |-> results, error |-> ""]
    ELSE LET hit == Head(candidates)
         IN  IF ~AccessGranted(access_map, hit.doc.page_title)
             THEN CollectResults(Tail(candidates), access_map, k, results)
             ELSE IF hit.sign < 0
             THEN [kind |-> "raise", results |-> <<>>, error |-> "serialize"]
             ELSE IF Len(results) + 1 >= k
             THEN [kind |-> "return", results |-> Append(results, hit), error |-> ""]
             ELSE CollectResults(Tail(candidates), access_map, k, Append(results, hit))

\* Mutant: the failed check lets the candidates through.
OnAccessCheckFailure_AllowAll(candidates) == [kind |-> "return", results |-> candidates, error |-> ""]

\* except Exception around validate_page_access: deny all.
OnAccessCheckFailure(candidates) == [kind |-> "return", results |-> <<>>, error |-> ""]

(***************************************************************************)
(* The tool dispatch registry (tools/base.py).  Parsed arguments are       *)
(* [dict, kv]: dict says json.loads gave an object, kv maps its keys to "" *)
(* (a falsy value) or "x" (a usable value).                                *)
(***************************************************************************)
TOOL_REGISTRY ==
    {"mw_get_page", "mw_run_smw_ask", "mw_vector_search", "mw_search_pages",
     "mw_get_categories", "mw_get_properties", "mw_list_pages"}

ArgKeys == {"title", "ask", "query"}

ArgDicts == UNION { [D -> {"", "x"}] : D \in SUBSET ArgKeys }

ParsedArgs == {[dict |-> TRUE, kv |-> kv] : kv \in ArgDicts}
                \cup {[dict |-> FALSE, kv |-> EmptyFn]}

\* The argument a handler insists on; "" for the handlers that need none.
RequiredArg(name) ==
    CASE name = "mw_get_page"      -> "title"
      [] name = "mw_run_smw_ask"   -> "ask"
      [] name = "mw_vector_search" -> "query"
      [] name = "mw_search_pages"  -> "query"
      [] OTHER                     -> ""

\* value = args.get(key); "if not value" is the handler's test.
ArgMissing(args, key) == key \notin DOMAIN args.kv \/ args.kv[key] = ""

\* The collaborators the tool behind a handler works with.
ToolExternals(name) ==
    CASE name = "mw_get_page"      -> {"wiki"}
      [] name = "mw_run_smw_ask"   -> {"vector_store", "wiki"}
      [] name = "mw_vector_search" -> {"embedder", "vector_store", "wiki"}
      [] name = "mw_search_pages"  -> {"wiki"}
      [] OTHER                     -> {"vector_store"}

\* Mutant of the handlers: only an absent argument is refused ("is None").
Handle_NoneOnly(name, args) ==
    IF ~args.dict
    THEN [kind |-> "raise", error |-> "AttributeError"]
    ELSE IF RequiredArg(name) # "" /\ RequiredArg(name) \notin DOMAIN args.kv
    THEN [kind |-> "raise", error |-> "ValueError: requires argument"]
    ELSE [kind |-> "invoke", error |-> ""]

\* A handler up to the call of its tool: args.get on a non-object fails,
\* a missing or falsy required argument raises the handler's ValueError.
Handle(name, args) ==
    IF ~args.dict
    THEN [kind |-> "raise", error |-> "AttributeError"]
    ELSE IF RequiredArg(name) # "" /\ ArgMissing(args, RequiredArg(name))
    THEN [kind |-> "raise", error |-> "ValueError: requires argument"]
    ELSE [kind |-> "invoke", error |-> ""]

\* dispatch_tool_call up to the call of the tool.
DispatchToolCall(name, args) ==
    IF name \notin TOOL_REGISTRY
    THEN [kind |-> "raise", error |-> "ValueError: unknown tool"]
    ELSE Handle(name, args)

(***************************************************************************)
(* The identity's allowed_namespaces, from the token's claim               *)
(* (auth/security.py, verify_mw_to_mcp_jwt).  A claim is absent, not a     *)
(* list, or a list of items of which only the ints are kept.               *)
(***************************************************************************)
IntItem(n) == [int |-> TRUE, val |-> n]
JunkItem == [int |-> FALSE, val |-> 0]

TokenClaims ==
    { [present |-> FALSE, list |-> FALSE, items |-> <<>>],
      [present |-> TRUE,  list |-> FALSE, items |-> <<>>],
      [present |-> TRUE,  list |-> TRUE,  items |-> <<>>],
      [present |-> TRUE,  list |-> TRUE,  items |-> <<JunkItem>>],
      [present |-> TRUE,  list |-> TRUE,  items |-> <<IntItem(NS_MAIN)>>],
      [present |-> TRUE,  list |-> TRUE,  items |-> <<IntItem(NS_CATEGORY), JunkItem>>],
      [present |-> TRUE,  list |-> TRUE,  items |-> <<IntItem(NS_MAIN), IntItem(NS_CATEGORY)>>] }

\* payload.get("allowed_namespaces", []); not a list -> []; keep the ints.
AllowedNamespaces(claim) ==
    IF ~claim.present \/ ~claim.list THEN {}
    ELSE {claim.items[i].val : i \in {j \in 1..Len(claim.items) : claim.items[j].int}}

(***************************************************************************)
(* Variables.                                                              *)
(***************************************************************************)
VARIABLES
    vsPc,        \* tool_vector_search: "idle", "embed", "acl", "done"
    vsIndex,     \* the FaissIndex the search runs on
    vsClaim,     \* the token's allowed_namespaces claim
    vsAllowed,   \* user.allowed_namespaces
    vsK,         \* k
    vsCands,     \* candidates (ns_filtered[:2k])
    vsAsked,     \* title lists sent to the ACL-check collaborator
    vsAcl,       \* the ACL check: [state: "none" | "answered" | "raised", access]
    vsOut,       \* [kind: "none" | "return" | "raise", results]
    dPc,         \* dispatch_tool_call: "idle", "tool", "done"
    dCall,       \* [name, args] as dispatched
    dOut,        \* [kind: "none" | "return" | "raise", error]
    dExternal,   \* collaborators the dispatched call has reached
    tPc,         \* chat: "idle", "gate", "prepare", "model", "tools",
                 \*       "forced", "record", "done"
    tUser,       \* user: [wiki_id, user_id]
    today,       \* date.today(), as a day number
    usage,       \* token_usage rows, keyed <<wiki_id, user_id, usage_date>>
    usage_status,            \* what check_limit returned at the gate
    loop_count,
    tLlmCalls,   \* llm.chat calls made by the turn
    total_prompt_tokens,
    total_completion_tokens,
    tBatch,      \* tool_calls of the last model response
    tResults,    \* tool results appended for tBatch, in order
    tLast,       \* loop_messages[-1]: [role, content]
    tOut,        \* the turn's outcome: [status, cause, reset_time, final_answer,
                 \*   detail, exc, messages, persisted]
    tLlmOk,      \* llm.chat calls of the turn that returned
    tRecorded,   \* the record_usage calls of the turn: their token arguments
    tLogTail,    \* used_tools_log: the entries appended since the last model response
    index_registry,  \* _index_registry: wiki_id -> FaissIndex
    registry_order,  \* the insertion order of _index_registry's keys
    disk,        \* data path -> the files saved there
    fxOut,       \* the last search or refused request: [op, wiki_id, kind, hits]
    ruTable,     \* token_usage as committed, keyed <<wiki_id, user_id, usage_date>>
    ruToday,     \* date.today(), as a day number
    ruTxn,       \* the sessions that record usage: [pc, key, tokens, row, overlapped]
    ruOut,       \* the last UsageStatus returned: [op, wiki_id, user_id, day, status]
    ixIndex,     \* one FaissIndex shared by the request handlers
    ixDim,       \* the dimension of its IndexFlatIP (0 while _index is None)
    ixLock,      \* self._lock: "free", or the operation inside it
    ixPending,   \* the operation inside the lock: [docs, embeddings, page_title, pre]
    ixSearch,    \* a search call: [state, q, k, overlapped]
    ixDeleted,   \* the title of the last delete_page that returned
    ixOut,       \* the last call that returned, until the next one starts
    rxJob,       \* update_page_embedding: [pc, title, docs, outcome, before]
    rxFiles,     \* the files the index was saved to
    stRows,      \* the embeddings table: [wiki_id, page_title, namespace] -> rows
    stLive,      \* the records added and not deleted since (kept for the claims)
    stOut,       \* the last call on the store: [op, wiki_id, arg, kind, result]
    upIndex,     \* the FaissIndex two update_page_embedding requests share
    upFiles,     \* the files that index is saved to
    upJobs,      \* the two requests: handler -> [pc, title, docs, outcome]
    ctTable,     \* token_usage as committed, read and written by two chat requests
    ctChat,      \* chat_session and chat_message as committed: [sessions, messages]
    ctTurns,     \* the two requests of one user: turn -> [pc, calls, prompt_tokens,
                 \* completion_tokens, staged, status]
    csSessions,  \* chat_session with its chat_message rows: session_id -> [wiki_id, owner_user_id, messages]
    csOut,       \* the last request on sessions: [op, user, named, status, session_id, context]
    wqQueue,     \* embedding_queue._queue: the jobs put and not yet taken, oldest first
    wqUnfinished, \* the queue's count of unfinished tasks (put, not yet task_done)
    wqPut,       \* the jobs put so far
    wqWorker,    \* process_embeddings_worker_task: [pc, job]
    wqRows       \* the embeddings table as committed

searchVars == <<vsPc, vsIndex, vsClaim, vsAllowed, vsK, vsCands, vsAsked, vsAcl, vsOut>>

dispatchVars == <<dPc, dCall, dOut, dExternal>>

turnVars ==
    <<tPc, tUser, today, usage, usage_status, loop_count, tLlmCalls,
      total_prompt_tokens, total_completion_tokens, tBatch, tResults, tLast, tOut,
      tLlmOk, tRecorded, tLogTail>>

faissVars == <<index_registry, registry_order, disk, fxOut>>

usageVars == <<ruTable, ruToday, ruTxn, ruOut>>

indexVars ==
    <<ixIndex, ixDim, ixLock, ixPending, ixSearch, ixDeleted, ixOut, rxJob, rxFiles>>

storeVars == <<stRows, stLive, stOut>>

upsertVars == <<upIndex, upFiles, upJobs>>

gateVars == <<ctTable, ctChat, ctTurns>>

sessionVars == <<csSessions, csOut>>

workerVars == <<wqQueue, wqUnfinished, wqPut, wqWorker, wqRows>>

vars == <<searchVars, dispatchVars, turnVars, faissVars, usageVars, indexVars, storeVars, upsertVars, gateVars, sessionVars, workerVars>>

NotSearch == <<dispatchVars, turnVars, faissVars, usageVars, indexVars, storeVars, upsertVars, gateVars, sessionVars, workerVars>>

NotDispatch == <<searchVars, turnVars, faissVars, usageVars, indexVars, storeVars, upsertVars, gateVars, sessionVars, workerVars>>

NotTurn == <<searchVars, dispatchVars, faissVars, usageVars, indexVars, storeVars, upsertVars, gateVars, sessionVars, workerVars>>

NotFaiss == <<searchVars, dispatchVars, turnVars, usageVars, indexVars, storeVars, upsertVars, gateVars, sessionVars, workerVars>>

NotUsage == <<searchVars, dispatchVars, turnVars, faissVars, indexVars, storeVars, upsertVars, gateVars, sessionVars, workerVars>>

NotIndex == <<searchVars, dispatchVars, turnVars, faissVars, usageVars, storeVars, upsertVars, gateVars, sessionVars, workerVars>>

NotStore == <<searchVars, dispatchVars, turnVars, faissVars, usageVars, indexVars, upsertVars, gateVars, sessionVars, workerVars>>

NotUpsert == <<searchVars, dispatchVars, turnVars, faissVars, usageVars, indexVars, storeVars, gateVars, sessionVars, workerVars>>

NotGate == <<searchVars, dispatchVars, turnVars, faissVars, usageVars, indexVars, storeVars, upsertVars, sessionVars, workerVars>>

NotSession == <<searchVars, dispatchVars, turnVars, faissVars, usageVars, indexVars, storeVars, upsertVars, gateVars, workerVars>>

NotWorker == <<searchVars, dispatchVars, turnVars, faissVars, usageVars, indexVars, storeVars, upsertVars, gateVars, sessionVars>>

(***************************************************************************)
(* tool_vector_search as a process: one step per await.                    *)
(***************************************************************************)
IndexesOfSize(n) ==
    { AddDocuments(NewFaissIndex, [i \in 1..n |-> DocOf(ts[i])], es) :
        ts \in [1..n -> Titles], es \in [1..n -> DocVecs] }

SearchIndexes == UNION { IndexesOfSize(n) : n \in 0..MaxDocs }

\* The collaborator's "access" object: any partial map title -> bool.
AclAnswers == UNION { [D -> BOOLEAN] : D \in SUBSET Titles }

NoOut == [kind |-> "none", results |-> <<>>, error |-> ""]

SearchInit ==
    /\ vsPc = "idle"
    /\ vsIndex \in SearchIndexes
    /\ vsClaim = [present |-> FALSE, list |-> FALSE, items |-> <<>>]
    /\ vsAllowed = {}
    /\ vsK = 1
    /\ vsCands = <<>>
    /\ vsAsked = <<>>
    /\ vsAcl = [state |-> "none", access |-> EmptyFn]
    /\ vsOut = NoOut

\* The tool is called for an authenticated user with some k >= 1.
VsCall ==
    /\ vsPc = "idle"
    /\ \E claim \in TokenClaims, k \in 1..MaxK :
          /\ vsClaim' = claim
          /\ vsAllowed' = AllowedNamespaces(claim)
          /\ vsK' = k
    /\ vsPc' = "embed"
    /\ UNCHANGED <<vsIndex, vsCands, vsAsked, vsAcl, vsOut, NotSearch>>

\* await embedder.embed([query]) raises: the error leaves the tool.
VsEmbedRaises ==
    /\ vsPc = "embed"
    /\ vsPc' = "done"
    /\ vsOut' = [kind |-> "raise", results |-> <<>>, error |-> "embedding"]
    /\ UNCHANGED <<vsIndex, vsClaim, vsAllowed, vsK, vsCands, vsAsked, vsAcl, NotSearch>>

\* embed returns no vector: return [].
VsEmbedEmpty ==
    /\ vsPc = "embed"
    /\ vsPc' = "done"
    /\ vsOut' = [kind |-> "return", results |-> <<>>, error |-> ""]
    /\ UNCHANGED <<vsIndex, vsClaim, vsAllowed, vsK, vsCands, vsAsked, vsAcl, NotSearch>>

\* embed returns q_emb: over-query the index, pre-filter by namespace, cut
\* to 2k candidates and send their titles to the ACL check.
VsEmbedded ==
    /\ vsPc = "embed"
    /\ \E q \in QueryVecs :
        \E raw_results \in FaissSearch(vsIndex, q, vsK * 3) :
          LET ns_filtered == FilterByNamespace(raw_results, vsAllowed)
              candidates  == TopCandidates(ns_filtered, vsK)
          IN  IF raw_results = <<>> \/ ns_filtered = <<>>
              THEN /\ vsPc' = "done"
                   /\ vsOut' = [kind |-> "return", results |-> <<>>, error |-> ""]
                   /\ UNCHANGED <<vsCands, vsAsked>>
              ELSE /\ vsPc' = "acl"
                   /\ vsCands' = candidates
                   /\ vsAsked' = Append(vsAsked, TitlesToCheck(candidates))
                   /\ UNCHANGED vsOut
    /\ UNCHANGED <<vsIndex, vsClaim, vsAllowed, vsK, vsAcl, NotSearch>>

\* The ACL check answers: filter the candidates and return up to k results.
VsAccessAnswered ==
    /\ vsPc = "acl"
    /\ \E raw \in AclAnswers :
          LET access_map == CheckReadAccess(TitlesToCheck(vsCands), raw)
          IN  /\ vsAcl' = [state |-> "answered", access |-> raw]
              /\ vsOut' = CollectResults(vsCands, access_map, vsK, <<>>)
    /\ vsPc' = "done"
    /\ UNCHANGED <<vsIndex, vsClaim, vsAllowed, vsK, vsCands, vsAsked, NotSearch>>

\* The ACL check raises (transport or response error).
VsAccessRaises ==
    /\ vsPc = "acl"
    /\ vsAcl' = [state |-> "raised", access |-> EmptyFn]
    /\ vsOut' = OnAccessCheckFailure(vsCands)
    /\ vsPc' = "done"
    /\ UNCHANGED <<vsIndex, vsClaim, vsAllowed, vsK, vsCands, vsAsked, NotSearch>>

SearchNext ==
    \/ VsCall
    \/ VsEmbedRaises
    \/ VsEmbedEmpty
    \/ VsEmbedded
    \/ VsAccessAnswered
    \/ VsAccessRaises

(***************************************************************************)
(* dispatch_tool_call as a process: the dispatch, then the tool's await.   *)
(***************************************************************************)
\* Names the LLM may ask for: the registry and two that are not in it.
RequestedNames == TOOL_REGISTRY \cup {"mw_edit_page", ""}

NoDispatchOut == [kind |-> "none", error |-> ""]

DispatchInit ==
    /\ dPc = "idle"
    /\ dCall = [name |-> "", args |-> [dict |-> FALSE, kv |-> EmptyFn]]
    /\ dOut = NoDispatchOut
    /\ dExternal = {}

\* The call is rejected before its tool is reached.
DispatchRaises ==
    /\ dPc = "idle"
    /\ \E name \in RequestedNames, args \in ParsedArgs :
          /\ DispatchToolCall(name, args).kind = "raise"
          /\ dCall' = [name |-> name, args |-> args]
          /\ dOut' = [kind |-> "raise", error |-> DispatchToolCall(name, args).error]
    /\ dPc' = "done"
    /\ UNCHANGED <<dExternal, NotDispatch>>

\* The handler calls its tool, which starts to work with its collaborators.
DispatchInvokes ==
    /\ dPc = "idle"
    /\ \E name \in RequestedNames, args \in ParsedArgs :
          /\ DispatchToolCall(name, args).kind = "invoke"
          /\ dCall' = [name |-> name, args |-> args]
          /\ dExternal' = ToolExternals(name)
    /\ dPc' = "tool"
    /\ UNCHANGED <<dOut, NotDispatch>>

ToolReturns ==
    /\ dPc = "tool"
    /\ dOut' = [kind |-> "return", error |-> ""]
    /\ dPc' = "done"
    /\ UNCHANGED <<dCall, dExternal, NotDispatch>>

ToolRaises ==
    /\ dPc = "tool"
    /\ dOut' = [kind |-> "raise", error |-> "tool failure"]
    /\ dPc' = "done"
    /\ UNCHANGED <<dCall, dExternal, NotDispatch>>

DispatchNext ==
    \/ DispatchRaises
    \/ DispatchInvokes
    \/ ToolReturns
    \/ ToolRaises

\* The other components at rest.
SearchIdle ==
    /\ vsPc = "idle"
    /\ vsIndex = NewFaissIndex
    /\ vsClaim = [present |-> FALSE, list |-> FALSE, items |-> <<>>]
    /\ vsAllowed = {}
    /\ vsK = 1
    /\ vsCands = <<>>
    /\ vsAsked = <<>>
    /\ vsAcl = [state |-> "none", access |-> EmptyFn]
    /\ vsOut = NoOut

(***************************************************************************)
(* Usage accounting (db/rate_limiter.py).  Dates are day numbers; the      *)
(* datetime "midnight UTC of day d" is written as the day number d.        *)
(***************************************************************************)
MAX_LOOPS == 10

Dates == 1..MaxDate

\* The (wiki_id, user_id) pairs of the requests: two users of one wiki
\* and a user of another wiki with the same user id.
Identities == {<<"a", 1>>, <<"a", 2>>, <<"b", 1>>}

UsageKeys == { <<i[1], i[2], d>> : i \in Identities, d \in Dates }

\* Mutant of the limit test: only usage above the limit is limited.
IsLimited_Strict(tokens_used, limit) == tokens_used > limit

\* is_limited = tokens_used >= self._daily_limit
IsLimited(tokens_used, limit) == tokens_used >= limit

Max(a, b) == IF a >= b THEN a ELSE b

\* Mutant of check_limit: the user's rows of every date up to `day` count.
CheckLimit_AnyDate(table, wiki_id, user_id, day) ==
    LET keys == { k \in DOMAIN table : k[1] = wiki_id /\ k[2] = user_id /\ k[3] <= day }
        found == keys # {}
        key == IF found THEN CHOOSE k \in keys : \A o \in keys : o[3] <= k[3]
               ELSE <<wiki_id, user_id, day>>
        tokens_used == IF found THEN table[key].total_tokens ELSE 0
    IN  [ tokens_used      |-> tokens_used,
          tokens_remaining |-> IF DailyTokenLimit >= tokens_used
                               THEN DailyTokenLimit - tokens_used ELSE 0,
          limit            |-> DailyTokenLimit,
          requests_today   |-> IF found THEN table[key].request_count ELSE 0,
          is_limited       |-> tokens_used >= DailyTokenLimit,
          reset_time       |-> day + 1 ]

\* RateLimiter.check_limit, run on the day `day`.
CheckLimit(table, wiki_id, user_id, day) ==
    LET key == <<wiki_id, user_id, day>>
        found == key \in DOMAIN table
        tokens_used == IF found THEN table[key].total_tokens ELSE 0
    IN  [ tokens_used      |-> tokens_used,
          tokens_remaining |-> Max(0, DailyTokenLimit - tokens_used),
          limit            |-> DailyTokenLimit,
          requests_today   |-> IF found THEN table[key].request_count ELSE 0,
          is_limited       |-> IsLimited(tokens_used, DailyTokenLimit),
          reset_time       |-> day + 1 ]

\* The upsert of RateLimiter.record_usage, run on the day `day`.
RecordUsage(table, wiki_id, user_id, day, prompt_tokens, completion_tokens) ==
    LET key == <<wiki_id, user_id, day>>
        total_tokens == prompt_tokens + completion_tokens
        inserted == [ prompt_tokens     |-> prompt_tokens,
                      completion_tokens |-> completion_tokens,
                      total_tokens      |-> total_tokens,
                      request_count     |-> 1 ]
        updated(row) ==
                    [ prompt_tokens     |-> row.prompt_tokens + prompt_tokens,
                      completion_tokens |-> row.completion_tokens + completion_tokens,
                      total_tokens      |-> row.total_tokens + total_tokens,
                      request_count     |-> row.request_count + 1 ]
    IN  [ k \in DOMAIN table \cup {key} |->
            IF k # key THEN table[k]
            ELSE IF key \in DOMAIN table THEN updated(table[key]) ELSE inserted ]

\* Rows left by earlier requests: just below, at and above the limit.
PriorRows ==
    { [ prompt_tokens     |-> t - 1,
        completion_tokens |-> 1,
        total_tokens      |-> t,
        request_count     |-> 1 ] :
        t \in {DailyTokenLimit - 1, DailyTokenLimit, DailyTokenLimit + 1} }

\* token_usage as a turn finds it: empty, or one row of a day up to `day`.
UsageTables(day) ==
    {EmptyFn} \cup
    { [k \in {key} |-> row] :
        key \in {x \in UsageKeys : x[3] <= day}, row \in PriorRows }

(***************************************************************************)
(* The chat turn (api/chat_routes.py, chat), one step per await.           *)
(***************************************************************************)
\* What the model writes as a call's arguments.
ArgStrings == {"{bad", "{}", "{\"title\": \"x\"}"}

\* json.loads(func_args_str)
JsonLoads(str) ==
    CASE str = "{}" ->
            [ok |-> TRUE, value |-> [dict |-> TRUE, kv |-> EmptyFn]]
      [] str = "{\"title\": \"x\"}" ->
            [ok |-> TRUE, value |-> [dict |-> TRUE, kv |-> [k \in {"title"} |-> "x"]]]
      [] OTHER ->
            [ok |-> FALSE, value |-> [dict |-> FALSE, kv |-> EmptyFn]]

\* tc["function"]: a call the model asks for.  Its id is its place in the
\* response's tool_calls.
ToolCalls == { [name |-> "mw_get_page", arguments |-> str] : str \in ArgStrings }

Batches == UNION { [1..n -> ToolCalls] : n \in 1..MaxBatch }

\* chat_result.message: an answer, or a request for tool calls.
ModelResponses ==
    { [content |-> c, tool_calls |-> <<>>] : c \in {"text", ""} }
        \cup { [content |-> "None", tool_calls |-> b] : b \in Batches }

\* chat_result.usage: what one model call is billed.
Usages == { [prompt_tokens |-> 2, completion_tokens |-> 1] }

\* Mutant of the loop test: one iteration more.
LoopContinues_Inclusive(count) == count <= MAX_LOOPS

\* while loop_count < MAX_LOOPS
LoopContinues(count) == count < MAX_LOOPS

\* Mutant of the batch loop: a failed call ends the batch.
MoreCalls_BreakOnError(batch, results) ==
    Len(results) < Len(batch) /\ ~results[Len(results)].error

\* for tc in tool_calls: calls are left once `results` are appended.
MoreCalls(batch, results) == Len(results) < Len(batch)

\* The tool message appended for call `id`; `raised` is where the call
\* failed: "json", "dispatch", "tool", or "none".
ToolResult(id, raised) ==
    [call_id |-> id, error |-> raised # "none", raised |-> raised]

NoStatus ==
    [ tokens_used |-> 0, tokens_remaining |-> 0, limit |-> 0,
      requests_today |-> 0, is_limited |-> FALSE, reset_time |-> 0 ]

\* req.messages: the new messages of the request.
ReqMessages == << [role |-> "user", content |-> "text"] >>

\* What an exception raised inside the turn says of itself.
ExcMessages == {"timed out", "Incorrect API key provided: sk-1"}

\* The payload of unhandled_exception_handler (core/errors.py).
GenericDetail == << "Internal server error" >>

NoTurnOut ==
    [status |-> 0, cause |-> "", reset_time |-> 0, final_answer |-> "",
     detail |-> <<>>, exc |-> "", messages |-> <<>>, persisted |-> <<>>]

TurnLocalsInit ==
    /\ tPc = "idle"
    /\ tUser = [wiki_id |-> "a", user_id |-> 1]
    /\ usage_status = NoStatus
    /\ loop_count = 0
    /\ tLlmCalls = 0
    /\ total_prompt_tokens = 0
    /\ total_completion_tokens = 0
    /\ tBatch = <<>>
    /\ tResults = <<>>
    /\ tLast = [role |-> "user", content |-> "text"]
    /\ tOut = NoTurnOut
    /\ tLlmOk = 0
    /\ tRecorded = <<>>
    /\ tLogTail = <<>>

TurnInit ==
    /\ today \in Dates
    /\ usage \in UsageTables(today)
    /\ TurnLocalsInit

\* The request arrives with its verified identity.
TurnStart ==
    /\ tPc = "idle"
    /\ \E i \in Identities : tUser' = [wiki_id |-> i[1], user_id |-> i[2]]
    /\ tPc' = "gate"
    /\ UNCHANGED <<today, usage, usage_status, loop_count, tLlmCalls,
                   total_prompt_tokens, total_completion_tokens, tBatch,
                   tResults, tLast, tOut, tLlmOk, tRecorded, tLogTail, NotTurn>>

\* 0. check_limit says limited: 429 with the reset time.
TurnGateRejects ==
    /\ tPc = "gate"
    /\ LET status == CheckLimit(usage, tUser.wiki_id, tUser.user_id, today)
       IN  /\ status.is_limited
           /\ usage_status' = status
           /\ tOut' = [NoTurnOut EXCEPT
                        !.status = 429, !.cause = "quota",
                        !.reset_time = status.reset_time,
                        !.detail = << "Daily token limit exceeded. You have used ",
                                      ToString(status.tokens_used), " of ",
                                      ToString(status.limit),
                                      " tokens today. Your limit will reset at ",
                                      ToString(status.reset_time) >>]
    /\ tPc' = "done"
    /\ UNCHANGED <<tUser, today, usage, loop_count, tLlmCalls,
                   total_prompt_tokens, total_completion_tokens, tBatch,
                   tResults, tLast, tLlmOk, tRecorded, tLogTail, NotTurn>>

TurnGatePasses ==
    /\ tPc = "gate"
    /\ LET status == CheckLimit(usage, tUser.wiki_id, tUser.user_id, today)
       IN  /\ ~status.is_limited
           /\ usage_status' = status
    /\ tPc' = "prepare"
    /\ UNCHANGED <<tUser, today, usage, loop_count, tLlmCalls,
                   total_prompt_tokens, total_completion_tokens, tBatch,
                   tResults, tLast, tOut, tLlmOk, tRecorded, tLogTail, NotTurn>>

\* 1-2. The session is loaded or created and the system prompt is built.
TurnPrepared ==
    /\ tPc = "prepare"
    /\ tPc' = IF LoopContinues(loop_count) THEN "model" ELSE "forced"
    /\ UNCHANGED <<tUser, today, usage, usage_status, loop_count, tLlmCalls,
                   total_prompt_tokens, total_completion_tokens, tBatch,
                   tResults, tLast, tOut, tLlmOk, tRecorded, tLogTail, NotTurn>>

\* The database or the vector store fails while the turn is set up: the
\* exception reaches unhandled_exception_handler.
TurnPrepareRaises ==
    /\ tPc = "prepare"
    /\ \E exc \in ExcMessages :
          tOut' = [NoTurnOut EXCEPT !.status = 500, !.cause = "setup",
                                    !.detail = GenericDetail, !.exc = exc]
    /\ tPc' = "done"
    /\ UNCHANGED <<tUser, today, usage, usage_status, loop_count, tLlmCalls,
                   total_prompt_tokens, total_completion_tokens, tBatch,
                   tResults, tLast, tLlmOk, tRecorded, tLogTail, NotTurn>>

\* 3. llm.chat answers without tool calls: the final answer, break.
TurnModelAnswers ==
    /\ tPc = "model"
    /\ \E resp \in ModelResponses, u \in Usages :
          /\ resp.tool_calls = <<>>
          /\ total_prompt_tokens' = total_prompt_tokens + u.prompt_tokens
          /\ total_completion_tokens' = total_completion_tokens + u.completion_tokens
          /\ tLast' = [role |-> "assistant", content |-> resp.content]
    /\ tLlmCalls' = tLlmCalls + 1
    /\ tLlmOk' = tLlmOk + 1
    /\ tBatch' = <<>>
    /\ tResults' = <<>>
    /\ tLogTail' = <<>>
    /\ tPc' = IF LoopContinues(loop_count) THEN "record" ELSE "forced"
    /\ UNCHANGED <<tUser, today, usage, usage_status, loop_count, tOut, tRecorded, NotTurn>>

\* llm.chat answers with tool calls: the batch is executed next.
TurnModelCallsTools ==
    /\ tPc = "model"
    /\ \E resp \in ModelResponses, u \in Usages :
          /\ resp.tool_calls # <<>>
          /\ total_prompt_tokens' = total_prompt_tokens + u.prompt_tokens
          /\ total_completion_tokens' = total_completion_tokens + u.completion_tokens
          /\ tLast' = [role |-> "assistant", content |-> resp.content]
          /\ tBatch' = resp.tool_calls
    /\ tLlmCalls' = tLlmCalls + 1
    /\ tLlmOk' = tLlmOk + 1
    /\ tResults' = <<>>
    /\ tLogTail' = <<>>
    /\ tPc' = "tools"
    /\ UNCHANGED <<tUser, today, usage, usage_status, loop_count, tOut, tRecorded, NotTurn>>

\* Mutant of the failing model call: the tokens spent so far are recorded.
TurnModelRaises_Records ==
    /\ tPc = "model"
    /\ tLlmCalls' = tLlmCalls + 1
    /\ tRecorded' = Append(tRecorded, [ prompt_tokens |-> total_prompt_tokens,
                                        completion_tokens |-> total_completion_tokens ])
    /\ \E exc \in ExcMessages :
          tOut' = [NoTurnOut EXCEPT
                     !.status = 500, !.cause = "llm", !.exc = exc,
                     !.detail = << "LLM call failed (iteration ", ToString(loop_count),
                                   "): ", exc >>]
    /\ tPc' = "done"
    /\ UNCHANGED <<tUser, today, usage, usage_status, loop_count,
                   total_prompt_tokens, total_completion_tokens, tBatch,
                   tResults, tLast, tLlmOk, tLogTail, NotTurn>>

\* llm.chat raises inside the loop: HTTPException 500 whose detail is built
\* from str(exc); the turn fails.
TurnModelRaises ==
    /\ tPc = "model"
    /\ tLlmCalls' = tLlmCalls + 1
    /\ \E exc \in ExcMessages :
          tOut' = [NoTurnOut EXCEPT
                     !.status = 500, !.cause = "llm", !.exc = exc,
                     !.detail = << "LLM call failed (iteration ", ToString(loop_count),
                                   "): ", exc >>]
    /\ tPc' = "done"
    /\ UNCHANGED <<tUser, today, usage, usage_status, loop_count,
                   total_prompt_tokens, total_completion_tokens, tBatch,
                   tResults, tLast, tLlmOk, tRecorded, tLogTail, NotTurn>>

\* The entry used_tools_log gets for a call.
ToolLogEntry(tc) == [name |-> tc.name, args |-> tc.arguments]

\* Mutant of the batch loop: a call whose arguments do not parse is not
\* logged.
AppendToolResult_LogsParsedOnly(raised) ==
    LET results == Append(tResults, ToolResult(Len(tResults) + 1, raised))
    IN  /\ tResults' = results
        /\ tLogTail' = IF raised = "json" THEN tLogTail
                       ELSE Append(tLogTail, ToolLogEntry(tBatch[Len(tResults) + 1]))
        /\ tLast' = [role |-> "tool", content |-> "json"]
        /\ IF MoreCalls(tBatch, results)
           THEN /\ tPc' = "tools"
                /\ loop_count' = loop_count
           ELSE /\ loop_count' = loop_count + 1
                /\ tPc' = IF LoopContinues(loop_count + 1) THEN "model" ELSE "forced"
        /\ UNCHANGED <<tUser, today, usage, usage_status, tLlmCalls,
                       total_prompt_tokens, total_completion_tokens, tBatch,
                       tOut, tLlmOk, tRecorded, NotTurn>>

\* The call is logged and the tool message for it is appended; after the
\* last call of the batch loop_count is incremented and the while test is
\* made.
AppendToolResult(raised) ==
    LET results == Append(tResults, ToolResult(Len(tResults) + 1, raised))
    IN  /\ tResults' = results
        /\ tLogTail' = Append(tLogTail, ToolLogEntry(tBatch[Len(tResults) + 1]))
        /\ tLast' = [role |-> "tool", content |-> "json"]
        /\ IF MoreCalls(tBatch, results)
           THEN /\ tPc' = "tools"
                /\ loop_count' = loop_count
           ELSE /\ loop_count' = loop_count + 1
                /\ tPc' = IF LoopContinues(loop_count + 1) THEN "model" ELSE "forced"
        /\ UNCHANGED <<tUser, today, usage, usage_status, tLlmCalls,
                       total_prompt_tokens, total_completion_tokens, tBatch,
                       tOut, tLlmOk, tRecorded, NotTurn>>

\* The call being executed.
CurrentCall == tBatch[Len(tResults) + 1]

\* json.loads fails: the error result, continue.
TurnToolBadJson ==
    /\ tPc = "tools"
    /\ ~JsonLoads(CurrentCall.arguments).ok
    /\ AppendToolResult("json")

\* dispatch_tool_call raises before the tool is reached.
TurnToolRejected ==
    /\ tPc = "tools"
    /\ JsonLoads(CurrentCall.arguments).ok
    /\ DispatchToolCall(CurrentCall.name, JsonLoads(CurrentCall.arguments).value).kind = "raise"
    /\ AppendToolResult("dispatch")

\* The tool runs and returns its output.
TurnToolReturns ==
    /\ tPc = "tools"
    /\ JsonLoads(CurrentCall.arguments).ok
    /\ DispatchToolCall(CurrentCall.name, JsonLoads(CurrentCall.arguments).value).kind = "invoke"
    /\ AppendToolResult("none")

\* The tool runs and raises.
TurnToolRaises ==
    /\ tPc = "tools"
    /\ JsonLoads(CurrentCall.arguments).ok
    /\ DispatchToolCall(CurrentCall.name, JsonLoads(CurrentCall.arguments).value).kind = "invoke"
    /\ AppendToolResult("tool")

\* loop_count >= MAX_LOOPS: the one forced generation returns.
TurnForcedAnswers ==
    /\ tPc = "forced"
    /\ \E resp \in ModelResponses, u \in Usages :
          /\ total_prompt_tokens' = total_prompt_tokens + u.prompt_tokens
          /\ total_completion_tokens' = total_completion_tokens + u.completion_tokens
          /\ tLast' = [role |-> "assistant", content |-> resp.content]
    /\ tLlmCalls' = tLlmCalls + 1
    /\ tLlmOk' = tLlmOk + 1
    /\ tPc' = "record"
    /\ UNCHANGED <<tUser, today, usage, usage_status, loop_count, tBatch,
                   tResults, tOut, tRecorded, tLogTail, NotTurn>>

\* Mutant of the forced generation: its exception fails the turn.
TurnForcedRaises_Fails ==
    /\ tPc = "forced"
    /\ tLlmCalls' = tLlmCalls + 1
    /\ \E exc \in ExcMessages :
          tOut' = [NoTurnOut EXCEPT !.status = 500, !.cause = "llm", !.exc = exc,
                                    !.detail = GenericDetail]
    /\ tPc' = "done"
    /\ UNCHANGED <<tUser, today, usage, usage_status, loop_count,
                   total_prompt_tokens, total_completion_tokens, tBatch,
                   tResults, tLast, tLlmOk, tRecorded, tLogTail, NotTurn>>

\* The forced generation raises: except Exception: pass.
TurnForcedRaises ==
    /\ tPc = "forced"
    /\ tLlmCalls' = tLlmCalls + 1
    /\ tPc' = "record"
    /\ UNCHANGED <<tUser, today, usage, usage_status, loop_count,
                   total_prompt_tokens, total_completion_tokens, tBatch,
                   tResults, tLast, tOut, tLlmOk, tRecorded, tLogTail, NotTurn>>

\* ChatMessage.content of the response: a str of at least one character.
ValidContent(content) == content \notin {"", "None"}

\* The tool messages of the last batch, as loop_messages holds them.
ToolMessages == [i \in 1..Len(tResults) |-> [role |-> "tool", content |-> "json"]]

\* Mutant of the persistence step: the tool messages are saved and returned
\* with the rest.
TurnRecordUsage_KeepsToolMessages ==
    /\ tPc = "record"
    /\ ValidContent(tLast.content)
    /\ tRecorded' = Append(tRecorded, [ prompt_tokens |-> total_prompt_tokens,
                                        completion_tokens |-> total_completion_tokens ])
    /\ usage' = RecordUsage(usage, tUser.wiki_id, tUser.user_id, today,
                            total_prompt_tokens, total_completion_tokens)
    /\ tOut' = [NoTurnOut EXCEPT
                  !.status = 200, !.final_answer = tLast.content,
                  !.persisted =
                      ReqMessages \o ToolMessages
                        \o << [role |-> "assistant", content |-> tLast.content] >>,
                  !.messages =
                      ReqMessages \o ToolMessages
                        \o << [role |-> "assistant", content |-> tLast.content] >>]
    /\ tPc' = "done"
    /\ UNCHANGED <<tUser, today, usage_status, loop_count, tLlmCalls,
                   total_prompt_tokens, total_completion_tokens, tBatch,
                   tResults, tLast, tLlmOk, tLogTail, NotTurn>>

\* 4-7. record_usage, the final answer, the messages persisted, the
\* response returned and the session committed.
TurnRecordUsage ==
    /\ tPc = "record"
    /\ ValidContent(tLast.content)
    /\ tRecorded' = Append(tRecorded, [ prompt_tokens |-> total_prompt_tokens,
                                        completion_tokens |-> total_completion_tokens ])
    /\ usage' = RecordUsage(usage, tUser.wiki_id, tUser.user_id, today,
                            total_prompt_tokens, total_completion_tokens)
    /\ tOut' = [NoTurnOut EXCEPT
                  !.status = 200, !.final_answer = tLast.content,
                  !.persisted =
                      ReqMessages \o << [role |-> "assistant", content |-> tLast.content] >>,
                  !.messages =
                      ReqMessages \o << [role |-> "assistant", content |-> tLast.content] >>]
    /\ tPc' = "done"
    /\ UNCHANGED <<tUser, today, usage_status, loop_count, tLlmCalls,
                   total_prompt_tokens, total_completion_tokens, tBatch,
                   tResults, tLast, tLlmOk, tLogTail, NotTurn>>

\* 4-7 with a final answer that is empty or null: record_usage is called,
\* building the response message raises, the session is rolled back.
TurnResponseInvalid ==
    /\ tPc = "record"
    /\ ~ValidContent(tLast.content)
    /\ tRecorded' = Append(tRecorded, [ prompt_tokens |-> total_prompt_tokens,
                                        completion_tokens |-> total_completion_tokens ])
    /\ tOut' = [NoTurnOut EXCEPT !.status = 500, !.cause = "response",
                                  !.detail = GenericDetail,
                                  !.exc = "1 validation error for ChatMessage"]
    /\ tPc' = "done"
    /\ UNCHANGED <<tUser, today, usage, usage_status, loop_count, tLlmCalls,
                   total_prompt_tokens, total_completion_tokens, tBatch,
                   tResults, tLast, tLlmOk, tLogTail, NotTurn>>

\* The calendar day changes while the server runs.
Midnight ==
    /\ today < MaxDate
    /\ today' = today + 1
    /\ UNCHANGED <<tPc, tUser, usage, usage_status, loop_count, tLlmCalls,
                   total_prompt_tokens, total_completion_tokens, tBatch,
                   tResults, tLast, tOut, tLlmOk, tRecorded, tLogTail, NotTurn>>

TurnNext ==
    \/ TurnStart
    \/ TurnGateRejects
    \/ TurnGatePasses
    \/ TurnPrepared
    \/ TurnPrepareRaises
    \/ TurnModelAnswers
    \/ TurnModelCallsTools
    \/ TurnModelRaises
    \/ TurnToolBadJson
    \/ TurnToolRejected
    \/ TurnToolReturns
    \/ TurnToolRaises
    \/ TurnForcedAnswers
    \/ TurnForcedRaises
    \/ TurnRecordUsage
    \/ TurnResponseInvalid
    \/ Midnight

\* The other components at rest.
DispatchIdle == DispatchInit

TurnIdle ==
    /\ today = 1
    /\ usage = EmptyFn
    /\ TurnLocalsInit

(***************************************************************************)
(* The registry and its indexes at work: every operation of a tenant       *)
(* starts with get_tenant_index(wiki_id).  A document carries `owner`, the *)
(* wiki id it was added under (kept for the claims only).                  *)
(***************************************************************************)
\* The wiki ids requests come with.
RequestWikiIds == { <<"a">>, <<"a", " ">>, <<"b">>, <<".", ".">> }

FxTitles == {"Alpha"}

\* The embedding of a chunk of the page.
FxVecs == {<<1, 1>>}

OwnedDoc(title, wiki_id) ==
    [page_title |-> title, namespace |-> NsOf(title), owner |-> wiki_id]

NoFxOut == [op |-> "none", wiki_id |-> <<>>, kind |-> "none", hits |-> <<>>]

FaissInit ==
    /\ index_registry = EmptyFn
    /\ registry_order = <<>>
    /\ disk = EmptyFn
    /\ fxOut = NoFxOut

RECURSIVE SumNextId(_, _)
\* The ids handed out by the indexes of `reg` at the keys `keys`.
SumNextId(reg, keys) ==
    IF keys = {} THEN 0
    ELSE LET w == CHOOSE x \in keys : TRUE
         IN  reg[w].next_id + SumNextId(reg, keys \ {w})

\* The registry stays within the model's size.
WithinIds(reg) == SumNextId(reg, DOMAIN reg) <= MaxIds

\* The insertion order of the registry dict after get_tenant_index.
OrderAfter(wiki_id) ==
    IF wiki_id \in DOMAIN index_registry THEN registry_order
    ELSE Append(registry_order, wiki_id)

\* The id does not validate: InvalidTenantError, nothing is created.
FxRejected ==
    /\ \E w \in RequestWikiIds :
          /\ ~ValidWikiId(w)
          /\ fxOut' = [op |-> "get", wiki_id |-> w, kind |-> "raise", hits |-> <<>>]
    /\ UNCHANGED <<index_registry, registry_order, disk, NotFaiss>>

\* add_documents of one chunk under wiki id w.
FxAdd ==
    /\ \E w \in RequestWikiIds, title \in FxTitles, e \in FxVecs :
          /\ ValidWikiId(w)
          /\ LET reg == GetTenantIndex(index_registry, disk, w)
             IN  index_registry' =
                    [reg EXCEPT ![w] = AddDocuments(reg[w], <<OwnedDoc(title, w)>>, <<e>>)]
          /\ WithinIds(index_registry')
          /\ registry_order' = OrderAfter(w)
          /\ fxOut' = NoFxOut
    /\ UNCHANGED <<disk, NotFaiss>>

\* delete_page under wiki id w.
FxDeletePage ==
    /\ \E w \in RequestWikiIds, title \in FxTitles :
          /\ ValidWikiId(w)
          /\ LET reg == GetTenantIndex(index_registry, disk, w)
             IN  index_registry' = [reg EXCEPT ![w] = DeletePage(reg[w], title)]
          /\ WithinIds(index_registry')
          /\ registry_order' = OrderAfter(w)
          /\ fxOut' = NoFxOut
    /\ UNCHANGED <<disk, NotFaiss>>

\* rebuild under wiki id w, with no chunk or one.
FxRebuild ==
    /\ \E w \in RequestWikiIds, title \in FxTitles, e \in FxVecs, n \in {0, 1} :
          /\ ValidWikiId(w)
          /\ LET reg == GetTenantIndex(index_registry, disk, w)
             IN  index_registry' =
                    [reg EXCEPT ![w] =
                        Rebuild(reg[w], [i \in 1..n |-> e], [i \in 1..n |-> OwnedDoc(title, w)])]
          /\ WithinIds(index_registry')
          /\ registry_order' = OrderAfter(w)
          /\ fxOut' = NoFxOut
    /\ UNCHANGED <<disk, NotFaiss>>

\* search under wiki id w.
FxSearch ==
    /\ \E w \in RequestWikiIds, q \in QueryVecs, k \in 1..MaxK :
          /\ ValidWikiId(w)
          /\ LET reg == GetTenantIndex(index_registry, disk, w)
             IN  /\ index_registry' = reg
                 /\ WithinIds(reg)
                 /\ \E hits \in FaissSearch(reg[w], q, k) :
                       fxOut' = [op |-> "search", wiki_id |-> w, kind |-> "return", hits |-> hits]
          /\ registry_order' = OrderAfter(w)
    /\ UNCHANGED <<disk, NotFaiss>>

\* save_tenant_index(w): False when the registry has no entry at w.
FxSave ==
    /\ \E w \in RequestWikiIds :
          /\ disk' = IF w \in DOMAIN index_registry
                     THEN SaveEntry(index_registry, disk, w, "none")
                     ELSE disk
          /\ fxOut' = NoFxOut
    /\ UNCHANGED <<index_registry, registry_order, NotFaiss>>

\* save_all_tenant_indexes, at shutdown.
FxSaveAll ==
    /\ disk' = SaveEntries(index_registry, disk, registry_order)
    /\ fxOut' = NoFxOut
    /\ UNCHANGED <<index_registry, registry_order, NotFaiss>>

FaissNext ==
    \/ FxRejected
    \/ FxAdd
    \/ FxDeletePage
    \/ FxRebuild
    \/ FxSearch
    \/ FxSave
    \/ FxSaveAll

(***************************************************************************)
(* The registry over a data directory that already holds files, some of    *)
(* them unreadable, and whose writes can fail (embeddings/registry.py,      *)
(* FaissIndex.load and FaissIndex.save).                                    *)
(***************************************************************************)
PsWikiIds == { <<"a">>, <<"b">> }

\* What the data path of wiki id w can hold when the process starts: the
\* files of an index of one chunk, readable or not, or the index file alone.
SavedFiles(w) ==
    { [index_file |-> TRUE, vectors |-> (0 :> <<1, 1>>),
       meta_file |-> m, next_id |-> 1,
       doc_map |-> (0 :> OwnedDoc("Alpha", w)), corrupt |-> c] :
         m \in BOOLEAN, c \in {"none", "index", "meta_json", "meta_docs"} }

PsDisks ==
    UNION { { d \in [D -> UNION { SavedFiles(w) : w \in D }] :
                \A w \in D : d[w] \in SavedFiles(w) /\ (d[w].meta_file \/ d[w].corrupt \in {"none", "index"}) } :
            D \in SUBSET PsWikiIds }

PersistInit ==
    /\ index_registry = EmptyFn
    /\ registry_order = <<>>
    /\ disk \in PsDisks
    /\ fxOut = NoFxOut

\* get_tenant_index(w): the index is created, loaded and registered on the
\* first access; the call returns the entry whatever load did.
PsGet ==
    /\ \E w \in PsWikiIds :
          /\ index_registry' = GetTenantIndex(index_registry, disk, w)
          /\ registry_order' = OrderAfter(w)
          /\ fxOut' = [op |-> "get", wiki_id |-> w, kind |-> "return", hits |-> <<>>,
                       created |-> w \notin DOMAIN index_registry]
    /\ UNCHANGED <<disk, NotFaiss>>

\* add_documents of one chunk on an index handed out before.
PsAdd ==
    /\ \E w \in DOMAIN index_registry :
          /\ index_registry' =
                [index_registry EXCEPT
                    ![w] = AddDocuments(@, <<OwnedDoc("Beta", w)>>, <<(<<1, 1>>)>>)]
          /\ WithinIds(index_registry')
    /\ fxOut' = NoFxOut
    /\ UNCHANGED <<registry_order, disk, NotFaiss>>

\* save_all_tenant_indexes, with the writes that fail this time.
PsSaveAll ==
    /\ \E faults \in [DOMAIN index_registry -> SaveFaults] :
          LET done == SaveAllTenantIndexes(index_registry, disk, registry_order, faults)
          IN  /\ disk' = done.disk
              /\ fxOut' = [op |-> "save_all", wiki_id |-> <<>>, kind |-> "return",
                           hits |-> <<>>, count |-> done.count, faults |-> faults]
    /\ UNCHANGED <<index_registry, registry_order, NotFaiss>>

\* clear_tenant_index(w): the entry leaves the registry, the files stay.
PsClear ==
    /\ \E w \in DOMAIN index_registry :
          /\ index_registry' = Restrict(index_registry, DOMAIN index_registry \ {w})
          /\ registry_order' = SelectSeq(registry_order, LAMBDA x : x # w)
    /\ fxOut' = NoFxOut
    /\ UNCHANGED <<disk, NotFaiss>>

PersistNext ==
    \/ PsGet
    \/ PsAdd
    \/ PsSaveAll
    \/ PsClear

(***************************************************************************)
(* The rate limiter under concurrent requests (db/rate_limiter.py,         *)
(* db/session.py).  Each request has its own database session; the upsert  *)
(* of record_usage takes the row's lock (or, for a new row, the unique     *)
(* index entry of uq_usage_user_date) until the session commits or rolls   *)
(* back, and a second upsert on the same key waits for it.                 *)
(***************************************************************************)
RuTxns == 1..MaxTxn

\* The token counts of a request.
RuUsages ==
    { [prompt_tokens |-> 0, completion_tokens |-> 0],
      [prompt_tokens |-> 2, completion_tokens |-> 1] }

NoRow ==
    [ prompt_tokens |-> 0, completion_tokens |-> 0,
      total_tokens |-> 0, request_count |-> 0 ]

NoTxn ==
    [ pc |-> "idle", key |-> <<"", 0, 0>>, prompt_tokens |-> 0,
      completion_tokens |-> 0, row |-> NoRow, overlapped |-> FALSE ]

NoRuOut == [op |-> "none", wiki_id |-> "", user_id |-> 0, day |-> 0, status |-> NoStatus]

UsageInit ==
    /\ ruTable = EmptyFn
    /\ ruToday = 1
    /\ ruTxn = [t \in RuTxns |-> NoTxn]
    /\ ruOut = NoRuOut

\* Mutant of the lock: an upsert never waits for another session.
RowLocked_Never(txns, t, key) == FALSE

\* Another session has written the row of `key` and not yet ended.
RowLocked(txns, t, key) ==
    \E o \in DOMAIN txns \ {t} : txns[o].pc = "flushed" /\ txns[o].key = key

\* The table with the row of `key` replaced.
WithRow(table, key, row) ==
    [k \in DOMAIN table \cup {key} |-> IF k = key THEN row ELSE table[k]]

\* record_usage is called: today = date.today(), the statement is built.
\* Sessions are numbered in the order of their calls.
RuBegin(t) ==
    /\ ruTxn[t].pc = "idle"
    /\ \A o \in RuTxns : o < t => ruTxn[o].pc # "idle"
    /\ \E id \in Identities, u \in RuUsages :
         LET key == <<id[1], id[2], ruToday>>
         IN  ruTxn' = [ruTxn EXCEPT ![t] =
                 [ pc |-> "called", key |-> key,
                   prompt_tokens |-> u.prompt_tokens,
                   completion_tokens |-> u.completion_tokens,
                   row |-> NoRow,
                   overlapped |-> \E o \in RuTxns \ {t} :
                                     /\ ruTxn[o].pc \in {"called", "flushed"}
                                     /\ ruTxn[o].key = key ]]
    /\ UNCHANGED <<ruTable, ruToday, ruOut, NotUsage>>

\* The upsert executes and is flushed; record_usage returns check_limit as
\* the session sees the table.
RuUpsert(t) ==
    /\ ruTxn[t].pc = "called"
    /\ ~RowLocked(ruTxn, t, ruTxn[t].key)
    /\ LET key == ruTxn[t].key
           row == RecordUsage(ruTable, key[1], key[2], key[3],
                              ruTxn[t].prompt_tokens, ruTxn[t].completion_tokens)[key]
       IN  /\ ruTxn' = [ruTxn EXCEPT ![t].pc = "flushed", ![t].row = row]
           /\ ruOut' = [ op |-> "record", wiki_id |-> key[1], user_id |-> key[2],
                         day |-> ruToday,
                         status |-> CheckLimit(WithRow(ruTable, key, row),
                                               key[1], key[2], ruToday) ]
    /\ UNCHANGED <<ruTable, ruToday, NotUsage>>

\* get_async_session: the request returned, the session commits.
RuCommit(t) ==
    /\ ruTxn[t].pc = "flushed"
    /\ ruTable' = WithRow(ruTable, ruTxn[t].key, ruTxn[t].row)
    /\ ruTxn' = [ruTxn EXCEPT ![t].pc = "committed", ![t].row = NoRow]
    /\ UNCHANGED <<ruToday, ruOut, NotUsage>>

\* get_async_session: the request raised, the session rolls back.
RuRollback(t) ==
    /\ ruTxn[t].pc = "flushed"
    /\ ruTxn' = [ruTxn EXCEPT ![t] = [NoTxn EXCEPT !.pc = "rolled_back"]]
    /\ UNCHANGED <<ruTable, ruToday, ruOut, NotUsage>>

\* check_limit of a request that has written nothing.
RuCheck ==
    /\ \E id \in Identities :
         ruOut' = [ op |-> "check", wiki_id |-> id[1], user_id |-> id[2],
                    day |-> ruToday,
                    status |-> CheckLimit(ruTable, id[1], id[2], ruToday) ]
    /\ UNCHANGED <<ruTable, ruToday, ruTxn, NotUsage>>

RuMidnight ==
    /\ ruToday < MaxDate
    /\ ruToday' = ruToday + 1
    /\ UNCHANGED <<ruTable, ruTxn, ruOut, NotUsage>>

UsageNext ==
    \/ \E t \in RuTxns : RuBegin(t)
    \/ \E t \in RuTxns : RuUpsert(t)
    \/ \E t \in RuTxns : RuCommit(t)
    \/ \E t \in RuTxns : RuRollback(t)
    \/ RuCheck
    \/ RuMidnight

(***************************************************************************)
(* One FaissIndex under concurrent callers (embeddings/index.py).  The     *)
(* mutators change the FAISS index and the document map in two steps       *)
(* inside self._lock; search takes the same lock.                          *)
(***************************************************************************)
IxTitles == {"Alpha", "Beta"}

\* Embedding vectors of dimension 0, 1 and 2.
IxVecs == { <<>>, <<1>>, <<1, 1>> }

\* The documents of one call: none, or one or two chunks of a page.
IxDocLists ==
    {<<>>} \cup { <<DocOf(t)>> : t \in IxTitles }
           \cup { <<DocOf(t), DocOf(t)>> : t \in IxTitles }

\* The embeddings of one call: none, one vector, or two vectors of equal or
\* of different dimension.
IxEmbeddings ==
    {<<>>} \cup { <<v>> : v \in IxVecs }
           \cup { <<<<1, 1>>, <<1, 1>>>>, <<<<1>>, <<1>>>>, <<<<1, 1>>, <<1>>>> }

IxQueries == { <<1, 0>> }

\* _validate_embeddings passes.
ValidateEmbeddings(embeddings, docs) ==
    /\ Len(embeddings) # 0
    /\ Len(embeddings) = Len(docs)
    /\ Len(embeddings[1]) # 0
    /\ \A i \in 1..Len(embeddings) : Len(embeddings[i]) = Len(embeddings[1])

\* get_stats: total_vectors and the embedded pages.
GetStats(idx) ==
    [ total_vectors  |-> Cardinality(DOMAIN idx.vectors),
      total_pages    |-> Cardinality({idx.doc_map[i].page_title : i \in DOMAIN idx.doc_map}),
      embedded_pages |-> {idx.doc_map[i].page_title : i \in DOMAIN idx.doc_map} ]

NoPending ==
    [docs |-> <<>>, embeddings |-> <<>>, page_title |-> "", pre |-> NewFaissIndex]

NoIxSearch == [state |-> "idle", q |-> <<>>, k |-> 0, overlapped |-> FALSE]

NoIxOut ==
    [ op |-> "none", raised |-> FALSE, docs |-> <<>>, embeddings |-> <<>>,
      page_title |-> "", count |-> 0, q |-> <<>>, k |-> 0, hits |-> <<>>,
      overlapped |-> FALSE, pre |-> NewFaissIndex, post |-> NewFaissIndex ]

NoJob ==
    [pc |-> "idle", title |-> "", docs |-> <<>>, outcome |-> "", before |-> NewFaissIndex]

IndexLocalsInit ==
    /\ ixLock = "free"
    /\ ixPending = NoPending
    /\ ixSearch = NoIxSearch
    /\ ixDeleted = ""
    /\ ixOut = NoIxOut
    /\ rxJob = NoJob

IndexInit ==
    /\ ixIndex = NewFaissIndex
    /\ ixDim = 0
    /\ rxFiles = NoFiles
    /\ IndexLocalsInit

\* A search that is waiting for the lock sees a writer enter it.
Overlap(srch) ==
    IF srch.state = "called" THEN [srch EXCEPT !.overlapped = TRUE] ELSE srch

\* add_documents returns at once for no documents, or the validation raises.
\* Neither touches the index; the call is placed between the critical
\* sections of the others.
IxAddUnlocked ==
    /\ ixLock = "free"
    /\ \E docs \in IxDocLists, embeddings \in IxEmbeddings :
         /\ Len(docs) = 0 \/ ~ValidateEmbeddings(embeddings, docs)
         /\ ixOut' = [NoIxOut EXCEPT !.op = "add", !.raised = (Len(docs) # 0),
                                      !.docs = docs, !.embeddings = embeddings,
                                      !.pre = ixIndex, !.post = ixIndex]
    /\ UNCHANGED <<ixIndex, ixDim, ixLock, ixPending, ixSearch, ixDeleted, rxJob, rxFiles, NotIndex>>

\* add_documents inside the lock: the counter moves on, then add_with_ids
\* refuses vectors of another dimension than the index's.
IxAddRaises ==
    /\ ixLock = "free"
    /\ ixIndex.built
    /\ \E docs \in IxDocLists, embeddings \in IxEmbeddings :
         /\ Len(docs) # 0
         /\ ValidateEmbeddings(embeddings, docs)
         /\ Len(embeddings[1]) # ixDim
         /\ ixIndex.next_id + Len(docs) <= MaxNextId
         /\ ixIndex' = [ixIndex EXCEPT !.next_id = @ + Len(docs)]
         /\ ixOut' = [NoIxOut EXCEPT !.op = "add", !.raised = TRUE,
                                      !.docs = docs, !.embeddings = embeddings,
                                      !.pre = ixIndex, !.post = ixIndex']
    /\ UNCHANGED <<ixDim, ixLock, ixPending, ixSearch, ixDeleted, rxJob, rxFiles, NotIndex>>

\* add_documents inside the lock, up to add_with_ids.
IxAddVectors ==
    /\ ixLock = "free"
    /\ \E docs \in IxDocLists, embeddings \in IxEmbeddings :
         /\ Len(docs) # 0
         /\ ValidateEmbeddings(embeddings, docs)
         /\ ixIndex.built => Len(embeddings[1]) = ixDim
         /\ ixIndex.next_id + Len(docs) <= MaxNextId
         /\ ixIndex' = [ixIndex EXCEPT
                          !.built = TRUE,
                          !.vectors = AddDocuments(ixIndex, docs, embeddings).vectors,
                          !.next_id = @ + Len(docs)]
         /\ ixDim' = Len(embeddings[1])
         /\ ixPending' = [docs |-> docs, embeddings |-> embeddings,
                          page_title |-> "", pre |-> ixIndex]
    /\ ixLock' = "add"
    /\ ixSearch' = Overlap(ixSearch)
    /\ ixOut' = NoIxOut
    /\ UNCHANGED <<ixDeleted, rxJob, rxFiles, NotIndex>>

\* add_documents: the documents enter _doc_map, the lock is released.
IxAddMaps ==
    /\ ixLock = "add"
    /\ ixIndex' = [ixIndex EXCEPT !.doc_map =
                      AddDocuments(ixPending.pre, ixPending.docs,
                                   ixPending.embeddings).doc_map]
    /\ ixOut' = [NoIxOut EXCEPT !.op = "add", !.docs = ixPending.docs,
                                 !.embeddings = ixPending.embeddings,
                                 !.pre = ixPending.pre, !.post = ixIndex']
    /\ ixLock' = "free"
    /\ ixPending' = NoPending
    /\ UNCHANGED <<ixDim, ixSearch, ixDeleted, rxJob, rxFiles, NotIndex>>

PageIds(idx, page_title) ==
    {i \in DOMAIN idx.doc_map : idx.doc_map[i].page_title = page_title}

\* delete_page finds no index or no chunk of the page: 0.
IxDeleteNothing ==
    /\ ixLock = "free"
    /\ \E page_title \in IxTitles :
         /\ ~ixIndex.built \/ PageIds(ixIndex, page_title) = {}
         /\ ixDeleted' = page_title
         /\ ixOut' = [NoIxOut EXCEPT !.op = "delete", !.page_title = page_title,
                                      !.pre = ixIndex, !.post = ixIndex]
    /\ UNCHANGED <<ixIndex, ixDim, ixLock, ixPending, ixSearch, rxJob, rxFiles, NotIndex>>

\* delete_page inside the lock, up to remove_ids.
IxDeleteVectors ==
    /\ ixLock = "free"
    /\ \E page_title \in IxTitles :
         /\ ixIndex.built
         /\ PageIds(ixIndex, page_title) # {}
         /\ ixIndex' = [ixIndex EXCEPT !.vectors = DeletePage(ixIndex, page_title).vectors]
         /\ ixPending' = [docs |-> <<>>, embeddings |-> <<>>,
                          page_title |-> page_title, pre |-> ixIndex]
    /\ ixLock' = "delete"
    /\ ixSearch' = Overlap(ixSearch)
    /\ ixOut' = NoIxOut
    /\ UNCHANGED <<ixDim, ixDeleted, rxJob, rxFiles, NotIndex>>

\* delete_page: the ids leave _doc_map, the count is returned.
IxDeleteMaps ==
    /\ ixLock = "delete"
    /\ ixIndex' = [ixIndex EXCEPT !.doc_map = DeletePage(ixIndex, ixPending.page_title).doc_map]
    /\ ixDeleted' = ixPending.page_title
    /\ ixOut' = [NoIxOut EXCEPT !.op = "delete", !.page_title = ixPending.page_title,
                                 !.count = Cardinality(PageIds(ixIndex, ixPending.page_title)),
                                 !.pre = ixPending.pre, !.post = ixIndex']
    /\ ixLock' = "free"
    /\ ixPending' = NoPending
    /\ UNCHANGED <<ixDim, ixSearch, rxJob, rxFiles, NotIndex>>

\* A handler calls search and reaches `with self._lock`.
IxSearchCall ==
    /\ ixSearch.state = "idle"
    /\ \E q \in IxQueries, k \in 1..MaxK :
         ixSearch' = [state |-> "called", q |-> q, k |-> k, overlapped |-> ixLock # "free"]
    /\ ixOut' = NoIxOut
    /\ UNCHANGED <<ixIndex, ixDim, ixLock, ixPending, ixDeleted, rxJob, rxFiles, NotIndex>>

\* Mutant of the lock: search does not take it.
SearchMayRun_Unlocked(lock) == TRUE

\* search has self._lock.
SearchMayRun(lock) == lock = "free"

\* The index as the operation inside the lock found it and will leave it.
StableBefore == IF ixLock = "free" THEN ixIndex ELSE ixPending.pre

StableAfter ==
    IF ixLock = "add"
    THEN AddDocuments(ixPending.pre, ixPending.docs, ixPending.embeddings)
    ELSE IF ixLock = "delete" THEN DeletePage(ixPending.pre, ixPending.page_title)
    ELSE IF ixLock = "rebuild" /\ ValidateEmbeddings(ixPending.embeddings, ixPending.docs)
    THEN Rebuild(ixPending.pre, ixPending.embeddings, ixPending.docs)
    ELSE ixIndex

\* search runs inside the lock and returns its hits.
IxSearchRuns ==
    /\ ixSearch.state = "called"
    /\ SearchMayRun(ixLock)
    /\ ~ixIndex.built \/ DOMAIN ixIndex.doc_map = {} \/ Len(ixSearch.q) = ixDim
    /\ \E hits \in FaissSearch(ixIndex, ixSearch.q, ixSearch.k) :
         ixOut' = [NoIxOut EXCEPT !.op = "search", !.q = ixSearch.q, !.k = ixSearch.k,
                                  !.hits = hits, !.overlapped = ixSearch.overlapped,
                                  !.pre = StableBefore, !.post = StableAfter]
    /\ ixSearch' = NoIxSearch
    /\ UNCHANGED <<ixIndex, ixDim, ixLock, ixPending, ixDeleted, rxJob, rxFiles, NotIndex>>

\* IndexIDMap2.search refuses a query of another dimension.
IxSearchRaises ==
    /\ ixSearch.state = "called"
    /\ SearchMayRun(ixLock)
    /\ ixIndex.built
    /\ DOMAIN ixIndex.doc_map # {}
    /\ Len(ixSearch.q) # ixDim
    /\ ixOut' = [NoIxOut EXCEPT !.op = "search", !.raised = TRUE,
                                 !.q = ixSearch.q, !.k = ixSearch.k,
                                 !.overlapped = ixSearch.overlapped,
                                 !.pre = StableBefore, !.post = StableAfter]
    /\ ixSearch' = NoIxSearch
    /\ UNCHANGED <<ixIndex, ixDim, ixLock, ixPending, ixDeleted, rxJob, rxFiles, NotIndex>>

\* The calls of rebuild: no documents, one chunk with its vector, two
\* chunks with one vector.
IxRebuildCalls ==
    { [docs |-> <<>>, embeddings |-> <<>>],
      [docs |-> <<DocOf("Alpha")>>, embeddings |-> << <<1, 1>> >>],
      [docs |-> <<DocOf("Beta"), DocOf("Beta")>>, embeddings |-> << <<1, 1>> >>] }

\* rebuild takes the lock and drops the index, the map and the counter.
IxRebuildClears ==
    /\ ixLock = "free"
    /\ \E call \in IxRebuildCalls :
         ixPending' = [docs |-> call.docs, embeddings |-> call.embeddings,
                       page_title |-> "", pre |-> ixIndex]
    /\ ixIndex' = NewFaissIndex
    /\ ixLock' = "rebuild"
    /\ ixSearch' = Overlap(ixSearch)
    /\ ixOut' = NoIxOut
    /\ UNCHANGED <<ixDim, ixDeleted, rxJob, rxFiles, NotIndex>>

\* rebuild's add_documents raises in _validate_embeddings: the exception
\* leaves the `with` block and the lock, the index stays as it was cleared.
IxRebuildRaises ==
    /\ ixLock = "rebuild"
    /\ Len(ixPending.docs) # 0
    /\ ~ValidateEmbeddings(ixPending.embeddings, ixPending.docs)
    /\ ixOut' = [NoIxOut EXCEPT !.op = "rebuild", !.raised = TRUE,
                                 !.docs = ixPending.docs,
                                 !.embeddings = ixPending.embeddings,
                                 !.pre = ixPending.pre, !.post = ixIndex]
    /\ ixLock' = "free"
    /\ ixPending' = NoPending
    /\ UNCHANGED <<ixIndex, ixDim, ixSearch, ixDeleted, rxJob, rxFiles, NotIndex>>

\* rebuild's add_documents returns (no documents) or adds the documents
\* from id 0 on; the lock is released.
IxRebuildAdds ==
    /\ ixLock = "rebuild"
    /\ Len(ixPending.docs) = 0 \/ ValidateEmbeddings(ixPending.embeddings, ixPending.docs)
    /\ ixIndex' = Rebuild(ixPending.pre, ixPending.embeddings, ixPending.docs)
    /\ ixDim' = IF Len(ixPending.docs) = 0 THEN ixDim ELSE Len(ixPending.embeddings[1])
    /\ ixOut' = [NoIxOut EXCEPT !.op = "rebuild", !.docs = ixPending.docs,
                                 !.embeddings = ixPending.embeddings,
                                 !.pre = ixPending.pre, !.post = ixIndex']
    /\ ixLock' = "free"
    /\ ixPending' = NoPending
    /\ UNCHANGED <<ixSearch, ixDeleted, rxJob, rxFiles, NotIndex>>

IndexNext ==
    \/ IxAddUnlocked
    \/ IxAddRaises
    \/ IxAddVectors
    \/ IxAddMaps
    \/ IxDeleteNothing
    \/ IxDeleteVectors
    \/ IxDeleteMaps
    \/ IxRebuildClears
    \/ IxRebuildRaises
    \/ IxRebuildAdds
    \/ IxSearchCall
    \/ IxSearchRuns
    \/ IxSearchRaises

(***************************************************************************)
(* update_page_embedding (api/embedding_routes.py): the page's chunks are  *)
(* deleted, the new content is embedded, the new chunks are added and the  *)
(* index is saved.                                                         *)
(***************************************************************************)
\* The embeddings the embedder returns for the chunks.
RxEmbeddings(docs) == [i \in 1..Len(docs) |-> <<1, 1>>]

\* The index as a request finds it: chunks of up to two pages.
RxIndexes ==
    { AddDocuments(AddDocuments(NewFaissIndex, ds[1], RxEmbeddings(ds[1])),
                   ds[2], RxEmbeddings(ds[2])) :
        ds \in {p \in IxDocLists \X IxDocLists : Len(p[1]) + Len(p[2]) <= MaxIds} }

ReindexInit ==
    /\ ixIndex \in RxIndexes
    /\ ixDim = IF ixIndex.built THEN 2 ELSE 0
    /\ rxFiles = Save(ixIndex, NoFiles, "none")
    /\ IndexLocalsInit

\* The chunks of the page in idx: ids with their documents.
PageRecords(idx, page_title) == Restrict(idx.doc_map, PageIds(idx, page_title))

\* The content has no chunk: the page is deleted, the index saved.
RxEmptyContent ==
    /\ rxJob.pc \in {"idle", "done"}
    /\ \E title \in IxTitles :
         /\ ixIndex' = DeletePage(ixIndex, title)
         /\ rxFiles' = Save(ixIndex', rxFiles, "none")
         /\ rxJob' = [pc |-> "done", title |-> title, docs |-> <<>>,
                      outcome |-> "deleted", before |-> ixIndex]
    /\ UNCHANGED <<ixDim, ixLock, ixPending, ixSearch, ixDeleted, ixOut, NotIndex>>

\* The page's chunks are deleted; the handler awaits the embedder.
RxDelete ==
    /\ rxJob.pc \in {"idle", "done"}
    /\ \E title \in IxTitles, docs \in IxDocLists :
         /\ Len(docs) # 0
         /\ docs[1].page_title = title
         /\ ixIndex.next_id + Len(docs) <= MaxIds + MaxNextId
         /\ ixIndex' = DeletePage(ixIndex, title)
         /\ rxJob' = [pc |-> "embed", title |-> title, docs |-> docs,
                      outcome |-> "", before |-> ixIndex]
    /\ UNCHANGED <<ixDim, ixLock, ixPending, ixSearch, ixDeleted, ixOut, rxFiles, NotIndex>>

\* embedder.embed raises: the request fails.
RxEmbedRaises ==
    /\ rxJob.pc = "embed"
    /\ rxJob' = [rxJob EXCEPT !.pc = "done", !.outcome = "failed"]
    /\ UNCHANGED <<ixIndex, ixDim, ixLock, ixPending, ixSearch, ixDeleted, ixOut,
                   rxFiles, NotIndex>>

\* The embeddings arrive: the chunks are added and the index is saved.
RxEmbedded ==
    /\ rxJob.pc = "embed"
    /\ ixIndex' = AddDocuments(ixIndex, rxJob.docs, RxEmbeddings(rxJob.docs))
    /\ ixDim' = 2
    /\ rxFiles' = Save(ixIndex', rxFiles, "none")
    /\ rxJob' = [rxJob EXCEPT !.pc = "done", !.outcome = "updated"]
    /\ UNCHANGED <<ixLock, ixPending, ixSearch, ixDeleted, ixOut, NotIndex>>

ReindexNext ==
    \/ RxEmptyContent
    \/ RxDelete
    \/ RxEmbedRaises
    \/ RxEmbedded

(***************************************************************************)
(* VectorStore (db/vector_store.py) and the schema tools on it              *)
(* (tools/schema_tools.py, tools/base.py).  The embeddings table is a bag   *)
(* of rows: the number of rows of each [wiki_id, page_title, namespace].    *)
(***************************************************************************)
NS_PROPERTY == 102

DEFAULT_LIMIT == 50

StWikis == {"a", "b"}

\* Page titles in the order sorted() gives them.
TitleOrder == <<"Alpha", "Beta", "Category:Science">>

StTitles == SeqRange(TitleOrder)

\* The pages a job can carry: the namespace comes with the request.
StPages ==
    { [page_title |-> "Alpha", namespace |-> NS_MAIN],
      [page_title |-> "Beta", namespace |-> NS_CATEGORY],
      [page_title |-> "Category:Science", namespace |-> NS_CATEGORY],
      [page_title |-> "Category:Science", namespace |-> NS_MAIN] }

StKeys ==
    { [wiki_id |-> w, page_title |-> pg.page_title, namespace |-> pg.namespace] :
        w \in StWikis, pg \in StPages }

NoRows == [key \in StKeys |-> 0]

RECURSIVE RowCount(_, _)
\* The number of rows of `rows` at the keys `keys`.
RowCount(rows, keys) ==
    IF keys = {} THEN 0
    ELSE LET key == CHOOSE x \in keys : TRUE
         IN  rows[key] + RowCount(rows, keys \ {key})

Min(a, b) == IF a <= b THEN a ELSE b

\* add_documents: one row per item of the zipped lists; nothing when
\* embeddings is empty.
StoreAddDocuments(rows, wiki_id, page_titles, namespaces, embeddings) ==
    LET n == Min(Min(Len(page_titles), Len(namespaces)), Len(embeddings))
        At(i) == [wiki_id |-> wiki_id, page_title |-> page_titles[i],
                  namespace |-> namespaces[i]]
    IN  IF embeddings = <<>> THEN rows
        ELSE [key \in StKeys |-> rows[key] + Cardinality({i \in 1..n : At(i) = key})]

\* Mutant of delete_page: the page's rows go in every wiki.
StoreDeletePage_EveryWiki(rows, wiki_id, page_title) ==
    [key \in StKeys |-> IF key.page_title = page_title THEN 0 ELSE rows[key]]

\* delete_page: the rows of the page in the wiki go.
StoreDeletePage(rows, wiki_id, page_title) ==
    [key \in StKeys |->
        IF key.wiki_id = wiki_id /\ key.page_title = page_title THEN 0 ELSE rows[key]]

\* An Optional[int].
None == [some |-> FALSE, val |-> 0]

Some(n) == [some |-> TRUE, val |-> n]

RECURSIVE SortedFrom(_, _)
\* sorted(): the titles from position r of the order on, each as often as
\* `times` says.
SortedFrom(times, r) ==
    IF r > Len(TitleOrder) THEN <<>>
    ELSE [i \in 1..times[TitleOrder[r]] |-> TitleOrder[r]] \o SortedFrom(times, r + 1)

\* sorted() of a set of titles.
SortedTitles(titles) ==
    SortedFrom([t \in StTitles |-> IF t \in titles THEN 1 ELSE 0], 1)

\* get_pages_by_namespace without a pattern: the distinct titles of the
\* wiki, of the namespace when one is given, sorted.
GetPagesByNamespace(rows, wiki_id, namespace) ==
    SortedTitles({ key.page_title : key \in
        { x \in StKeys : /\ rows[x] > 0
                         /\ x.wiki_id = wiki_id
                         /\ namespace.some => x.namespace = namespace.val } })

\* get_stats.
StoreGetStats(rows, wiki_id) ==
    LET unique_pages == GetPagesByNamespace(rows, wiki_id, None)
    IN  [total_vectors |-> RowCount(rows, {key \in StKeys : key.wiki_id = wiki_id}),
         total_pages |-> Len(unique_pages),
         embedded_pages |-> unique_pages]

\* results[:limit]
Take(results, limit) == SubSeq(results, 1, Min(Len(results), limit))

\* The names lists mw_get_categories is called with; <<>> is no list.
CategoryNames ==
    { <<>>, <<"Science">>, <<"DoesNotExist">>, <<"Science", "DoesNotExist">>,
      <<"Science", "Science">> }

\* Mutant of tool_get_categories: the titles of every namespace count.
ToolGetCategories_AnyNamespace(rows, wiki_id, names) ==
    LET all_cats == SeqRange(GetPagesByNamespace(rows, wiki_id, None))
        valid_items == SelectSeq(names, LAMBDA name : ("Category:" \o name) \in all_cats)
    IN  [i \in 1..Len(valid_items) |-> "Category:" \o valid_items[i]]

\* tool_get_categories as _handle_get_categories calls it, without prefix:
\* with names, the given names whose 'Category:<name>' is a title of
\* namespace 14, prefixed and sorted; without, the first titles of
\* namespace 14.
ToolGetCategories(rows, wiki_id, names) ==
    IF names # <<>>
    THEN LET all_cats == SeqRange(GetPagesByNamespace(rows, wiki_id, Some(NS_CATEGORY)))
             valid_items ==
                SelectSeq(names, LAMBDA name : ("Category:" \o name) \in all_cats)
             full == [i \in 1..Len(valid_items) |-> "Category:" \o valid_items[i]]
         IN  SortedFrom([t \in StTitles |->
                            Cardinality({i \in 1..Len(full) : full[i] = t})], 1)
    ELSE Take(GetPagesByNamespace(rows, wiki_id, Some(NS_CATEGORY)), DEFAULT_LIMIT)

\* The characters str.isdigit accepts, in the order of their value.
DigitChars == <<"0", "1", "2", "3", "4", "5", "6", "7", "8", "9">>

IsDigit(chars) == chars # <<>> /\ \A i \in 1..Len(chars) : chars[i] \in SeqRange(DigitChars)

RECURSIVE ParseInt(_)
\* int() of a string of digits.
ParseInt(chars) ==
    IF chars = <<>> THEN 0
    ELSE 10 * ParseInt(SubSeq(chars, 1, Len(chars) - 1))
         + (CHOOSE d \in 0..9 : DigitChars[d + 1] = chars[Len(chars)])

\* str.lower, on the letters the model's inputs are written with.
LowerChar(c) ==
    CASE c = "C" -> "c"
      [] c = "M" -> "m"
      [] c = "P" -> "p"
      [] OTHER -> c

Lower(chars) == [i \in 1..Len(chars) |-> LowerChar(chars[i])]

\* The name table of _handle_list_pages.
NamespaceAliases ==
    { [name |-> <<"m", "a", "i", "n">>, id |-> 0],
      [name |-> <<"t", "a", "l", "k">>, id |-> 1],
      [name |-> <<"u", "s", "e", "r">>, id |-> 2],
      [name |-> <<"p", "r", "o", "j", "e", "c", "t">>, id |-> 4],
      [name |-> <<"f", "i", "l", "e">>, id |-> 6],
      [name |-> <<"m", "e", "d", "i", "a", "w", "i", "k", "i">>, id |-> 8],
      [name |-> <<"t", "e", "m", "p", "l", "a", "t", "e">>, id |-> 10],
      [name |-> <<"h", "e", "l", "p">>, id |-> 12],
      [name |-> <<"c", "a", "t", "e", "g", "o", "r", "y">>, id |-> NS_CATEGORY],
      [name |-> <<"p", "r", "o", "p", "e", "r", "t", "y">>, id |-> NS_PROPERTY] }

AliasId(chars) == (CHOOSE a \in NamespaceAliases : a.name = chars).id

\* The values args.get("namespace") can give: none, a JSON integer, a JSON
\* string (its characters), a JSON number with a fraction, a JSON array.
RawNamespaces ==
    { [type |-> "none", int |-> 0, chars |-> <<>>],
      [type |-> "int", int |-> 0, chars |-> <<>>],
      [type |-> "int", int |-> NS_CATEGORY, chars |-> <<>>],
      [type |-> "str", int |-> 0, chars |-> <<"1", "4">>],
      [type |-> "str", int |-> 0, chars |-> <<" ", "C", "a", "t", "e", "g", "o", "r", "y">>],
      [type |-> "str", int |-> 0, chars |-> <<"m", "a", "i", "n">>],
      [type |-> "str", int |-> 0, chars |-> <<"c", "a", "t">>],
      [type |-> "str", int |-> 0, chars |-> <<>>],
      [type |-> "str", int |-> 0, chars |-> <<" ", "1", "4">>],
      [type |-> "float", int |-> 0, chars |-> <<>>],
      [type |-> "list", int |-> 0, chars |-> <<>>] }

\* The namespace part of _handle_list_pages: ns_id, or ValueError.
ResolveNamespace(raw_ns) ==
    IF raw_ns.type = "int" THEN [kind |-> "ok", ns_id |-> Some(raw_ns.int)]
    ELSE IF raw_ns.type = "str"
    THEN IF IsDigit(raw_ns.chars)
         THEN [kind |-> "ok", ns_id |-> Some(ParseInt(raw_ns.chars))]
         ELSE LET normalized == Strip(Lower(raw_ns.chars))
              IN  IF \E a \in NamespaceAliases : a.name = normalized
                  THEN [kind |-> "ok", ns_id |-> Some(AliasId(normalized))]
                  ELSE [kind |-> "raise", ns_id |-> None]
    ELSE [kind |-> "ok", ns_id |-> None]

\* _handle_list_pages and tool_list_pages, without prefix.
HandleListPages(rows, wiki_id, raw_ns) ==
    LET ns == ResolveNamespace(raw_ns)
    IN  IF ns.kind = "raise" THEN [kind |-> "raise", result |-> <<>>]
        ELSE [kind |-> "return",
              result |-> Take(GetPagesByNamespace(rows, wiki_id, ns.ns_id), DEFAULT_LIMIT)]

NoStOut == [op |-> "none", wiki_id |-> "", arg |-> <<>>, kind |-> "none", result |-> <<>>]

StoreInit ==
    /\ stRows = NoRows
    /\ stLive = NoRows
    /\ stOut = NoStOut

\* The worker adds the n chunks of a page (embeddings/queue.py, step 4).
StAdd ==
    /\ \E w \in StWikis, pg \in StPages, n \in 1..MaxRows :
          /\ stRows' = StoreAddDocuments(stRows, w,
                          [i \in 1..n |-> pg.page_title], [i \in 1..n |-> pg.namespace],
                          [i \in 1..n |-> <<1, 1>>])
          /\ RowCount(stRows', StKeys) <= MaxRows
          /\ stLive' =
                [stLive EXCEPT ![[wiki_id |-> w, page_title |-> pg.page_title,
                                  namespace |-> pg.namespace]] = @ + n]
          /\ stOut' = [op |-> "add", wiki_id |-> w, arg |-> pg, kind |-> "return",
                       result |-> n]
    /\ UNCHANGED NotStore

\* delete_page of a page of a wiki.
StDeletePage ==
    /\ \E w \in StWikis, t \in StTitles :
          /\ stRows' = StoreDeletePage(stRows, w, t)
          /\ stLive' = [key \in StKeys |->
                          IF key.wiki_id = w /\ key.page_title = t THEN 0 ELSE stLive[key]]
          /\ stOut' = [op |-> "delete", wiki_id |-> w, arg |-> t, kind |-> "return",
                       result |-> RowCount(stRows, {key \in StKeys :
                                     key.wiki_id = w /\ key.page_title = t})]
    /\ UNCHANGED NotStore

\* get_stats of a wiki.
StGetStats ==
    /\ \E w \in StWikis :
          stOut' = [op |-> "stats", wiki_id |-> w, arg |-> <<>>, kind |-> "return",
                    result |-> StoreGetStats(stRows, w)]
    /\ UNCHANGED <<stRows, stLive, NotStore>>

\* mw_get_categories under the caller's wiki id.
StGetCategories ==
    /\ \E w \in StWikis, names \in CategoryNames :
          stOut' = [op |-> "get_categories", wiki_id |-> w, arg |-> names,
                    kind |-> "return", result |-> ToolGetCategories(stRows, w, names)]
    /\ UNCHANGED <<stRows, stLive, NotStore>>

\* mw_list_pages under the caller's wiki id.
StListPages ==
    /\ \E w \in StWikis, raw_ns \in RawNamespaces :
          LET out == HandleListPages(stRows, w, raw_ns)
          IN  stOut' = [op |-> "list_pages", wiki_id |-> w, arg |-> raw_ns,
                        kind |-> out.kind, result |-> out.result]
    /\ UNCHANGED <<stRows, stLive, NotStore>>

\* The values of search's namespace_filter: None, or a list of namespaces.
StFilters ==
    { [given |-> FALSE, list |-> <<>>] } \cup
    { [given |-> TRUE, list |-> f] :
        f \in { <<>>, <<NS_MAIN>>, <<NS_CATEGORY>>, <<NS_MAIN, NS_CATEGORY>> } }

\* `if namespace_filter:` -- None and the empty list are both false.
FilterApplies(namespace_filter) ==
    namespace_filter.given /\ Len(namespace_filter.list) # 0

\* The keys of the rows the statement of search selects from.
SearchKeys(rows, wiki_id, namespace_filter) ==
    { key \in StKeys :
        /\ key.wiki_id = wiki_id
        /\ rows[key] > 0
        /\ FilterApplies(namespace_filter) =>
              \E i \in 1..Len(namespace_filter.list) :
                  namespace_filter.list[i] = key.namespace }

\* VectorStore.search: the results the statement can give, as the number
\* of rows returned per key: the k nearest of the selected rows, which
\* rows those are being up to the embeddings.
StoreSearch(rows, wiki_id, k, namespace_filter) ==
    LET keys == SearchKeys(rows, wiki_id, namespace_filter)
    IN  { r \in [keys -> 0..k] :
            /\ \A key \in keys : r[key] <= rows[key]
            /\ RowCount(r, keys) = Min(k, RowCount(rows, keys)) }

\* VectorStore.search under the caller's wiki id.
StSearch ==
    /\ \E w \in StWikis, k \in 1..MaxK, f \in StFilters :
          \E r \in StoreSearch(stRows, w, k, f) :
              stOut' = [op |-> "search", wiki_id |-> w, arg |-> [k |-> k, filter |-> f],
                        kind |-> "return", result |-> r]
    /\ UNCHANGED <<stRows, stLive, NotStore>>

StoreNext ==
    \/ StAdd
    \/ StDeletePage
    \/ StGetStats
    \/ StGetCategories
    \/ StListPages
    \/ StSearch

(***************************************************************************)
(* Claims about the permission-filtered search (SpecSearch).               *)
(***************************************************************************)
ResultTitles == [i \in 1..Len(vsOut.results) |-> vsOut.results[i].doc.page_title]

AclAnswered == vsAcl.state = "answered"

\* C2: every result returned by the permission-filtered search has a
\* namespace in user.allowed_namespaces and a title the ACL collaborator
\* answered true for in this search; a title missing from the answer is
\* denied.
C2_ResultsAllowedAndGranted ==
    vsOut.kind = "return" =>
        \A i \in 1..Len(vsOut.results) :
            /\ vsOut.results[i].doc.namespace \in vsAllowed
            /\ AclAnswered
            /\ vsOut.results[i].doc.page_title \in DOMAIN vsAcl.access
            /\ vsAcl.access[vsOut.results[i].doc.page_title] = TRUE

\* A search returned a result although one candidate's title was missing
\* from the ACL answer and the index holds a page outside the allowed
\* namespaces.
C2_Witness ==
    /\ vsOut.kind = "return"
    /\ Len(vsOut.results) >= 1
    /\ AclAnswered
    /\ \E i \in 1..Len(vsCands) : vsCands[i].doc.page_title \notin DOMAIN vsAcl.access
    /\ \E id \in DOMAIN vsIndex.doc_map : vsIndex.doc_map[id].namespace \notin vsAllowed

\* C3: if the ACL check raises for the candidate batch the search returns
\* the empty list: no exception leaves the tool and no candidate is returned.
C3_AclFailureReturnsEmpty ==
    vsAcl.state = "raised" => vsOut = [kind |-> "return", results |-> <<>>, error |-> ""]

\* The ACL check raised for a non-empty candidate batch.
C3_Witness ==
    /\ vsAcl.state = "raised"
    /\ vsPc = "done"
    /\ Len(vsCands) >= 2

\* The claim's "no usable allowed_namespaces claim": absent, not a list, or
\* a list without an int.
NoUsableClaim ==
    \/ ~vsClaim.present
    \/ ~vsClaim.list
    \/ \A i \in 1..Len(vsClaim.items) : ~vsClaim.items[i].int

C9_AtMostK ==
    vsOut.kind = "return" => Len(vsOut.results) <= vsK

\* A search with k = 1 returned one result out of several granted candidates.
C9_Witness ==
    /\ vsOut.kind = "return"
    /\ vsK = 1
    /\ Len(vsOut.results) = 1
    /\ AclAnswered
    /\ Cardinality({i \in 1..Len(vsCands) :
                       /\ vsCands[i].doc.page_title \in DOMAIN vsAcl.access
                       /\ vsAcl.access[vsCands[i].doc.page_title]
                       /\ vsCands[i].sign >= 0}) >= 2

\* C10: the search never returns two results with the same page title.
C10_NoDuplicateTitles ==
    vsOut.kind = "return" =>
        \A i, j \in 1..Len(vsOut.results) :
            i # j => ResultTitles[i] # ResultTitles[j]

(***************************************************************************)
(* Claims about the tool dispatch registry (SpecDispatch).                 *)
(***************************************************************************)
\* The argument the claim names for a tool is absent from the parsed
\* arguments or empty.
ClaimedArgMissing(name, key) ==
    /\ dCall.name = name
    /\ (key \notin DOMAIN dCall.args.kv \/ dCall.args.kv[key] = "")

InvalidCall ==
    \/ dCall.name \notin TOOL_REGISTRY
    \/ ClaimedArgMissing("mw_get_page", "title")
    \/ ClaimedArgMissing("mw_run_smw_ask", "ask")
    \/ ClaimedArgMissing("mw_vector_search", "query")
    \/ ClaimedArgMissing("mw_search_pages", "query")

\* C8: a dispatched call whose name is not in the registry, or whose
\* required argument is missing or empty, raises an error (the explicit
\* ValueError when the arguments are a JSON object) and reaches no embedding,
\* vector-store or wiki collaborator; it is never run.
C8_InvalidCallRaises ==
    (dPc # "idle" /\ InvalidCall) =>
        /\ dPc = "done"
        /\ dOut.kind = "raise"
        /\ dExternal = {}
        /\ dOut.error # "tool failure"
        /\ (dCall.args.dict \/ dCall.name \notin TOOL_REGISTRY =>
               dOut.error \in {"ValueError: unknown tool", "ValueError: requires argument"})

\* mw_get_page was dispatched with an empty title and raised.
C8_Witness ==
    /\ dPc = "done"
    /\ dCall.name = "mw_get_page"
    /\ dCall.args.dict
    /\ "title" \in DOMAIN dCall.args.kv
    /\ dCall.args.kv["title"] = ""
    /\ dOut.kind = "raise"

(***************************************************************************)
(* Claims about the chat turn (SpecTurn, FairSpecTurn).                    *)
(***************************************************************************)
\* Today's recorded total tokens of the turn's (tenant, user).
RecordedToday ==
    IF <<tUser.wiki_id, tUser.user_id, today>> \in DOMAIN usage
    THEN usage[<<tUser.wiki_id, tUser.user_id, today>>].total_tokens
    ELSE 0

\* C5: when the gate check of a turn finds today's recorded total of
\* (tenant, user) at or above the daily limit, the turn ends there with
\* the quota-exceeded status carrying the reset time (the next day's
\* midnight), and a turn so rejected has made no LLM call.
C5_LimitedTurnRejected ==
    /\ [][ (tPc = "gate" /\ tPc' # "gate" /\ RecordedToday >= DailyTokenLimit) =>
              /\ tPc' = "done"
              /\ tOut'.status = 429
              /\ tOut'.reset_time = today + 1
              /\ tLlmCalls' = 0 ]_vars
    /\ [](tOut.status = 429 => tPc = "done" /\ tLlmCalls = 0)

\* A turn was rejected with its recorded total exactly at the limit.
C5_Witness ==
    /\ tPc = "done"
    /\ tOut.status = 429
    /\ RecordedToday = DailyTokenLimit
    /\ usage_status.tokens_used = DailyTokenLimit

\* C6: whatever the model answers, one turn makes at most MAX_LOOPS + 1
\* model calls, and the tool loop terminates: the turn reaches its end.
C6_BoundedModelCalls ==
    /\ [](tLlmCalls <= MAX_LOOPS + 1)
    /\ [](loop_count <= MAX_LOOPS)
    /\ <>(tPc = "done")

\* The model asked for tools in all MAX_LOOPS iterations and the forced
\* call was made: MAX_LOOPS + 1 model calls.
C6_Witness ==
    /\ tPc = "done"
    /\ tOut.status = 200
    /\ loop_count = MAX_LOOPS
    /\ tLlmCalls = MAX_LOOPS + 1

\* Where call i of the current batch fails before its tool runs.
FailsEarly(i) ==
    IF ~JsonLoads(tBatch[i].arguments).ok THEN "json"
    ELSE IF DispatchToolCall(tBatch[i].name, JsonLoads(tBatch[i].arguments).value).kind = "raise"
    THEN "dispatch"
    ELSE "none"

\* C7: in a batch of tool calls, a call whose arguments do not parse or
\* whose handler raises gets an error result of its own and no other call
\* does: results are appended one per call, in call order, a result is an
\* error exactly when its own call failed, every call whose arguments
\* parse is dispatched, and the step after a tool call is the next tool
\* call or the next model call, never the end of the turn.
C7_ToolErrorsStayLocal ==
    /\ [](\A i \in 1..Len(tResults) :
            /\ tResults[i].call_id = i
            /\ tResults[i].error <=> tResults[i].raised # "none"
            /\ FailsEarly(i) # "none" => tResults[i].raised = FailsEarly(i)
            /\ FailsEarly(i) = "none" => tResults[i].raised \in {"none", "tool"})
    /\ [](IF tPc = "tools" THEN Len(tResults) < Len(tBatch)
                           ELSE Len(tResults) = Len(tBatch))
    /\ [](tOut.status = 500 => tOut.cause \in {"llm", "setup", "response"})
    /\ [][tPc = "tools" => tPc' \in {"tools", "model", "forced"}]_vars

\* A batch of two: the first call failed to parse, the second ran and
\* returned, and the loop went on to the next model call.
C7_Witness ==
    /\ tPc = "model"
    /\ Len(tBatch) = 2
    /\ Len(tResults) = 2
    /\ tResults[1].raised = "json"
    /\ tResults[1].error
    /\ tResults[2].raised = "none"
    /\ ~tResults[2].error

\* A batch of two: the handler of the first call raised, the second ran.
C7_WitnessHandler ==
    /\ tPc = "model"
    /\ Len(tResults) = 2
    /\ tResults[1].raised = "tool"
    /\ tResults[2].raised = "none"

\* The turn got through its loop: it was not rejected at the gate and failed
\* neither while it was set up nor in a model call of the loop.
LoopCompleted ==
    /\ tPc = "done"
    /\ tOut.cause \notin {"quota", "setup", "llm"}

\* C11: whenever a turn completes (the model answered without tool calls,
\* or the iteration cap was reached and the forced call returned or
\* failed), the turn returns a final answer that is a non-empty string.
C11_FinalAnswerNonEmpty ==
    LoopCompleted =>
        /\ tOut.status = 200
        /\ tOut.final_answer \notin {"", "None"}

\* C13: record_usage is called once per completed turn, after the last
\* model call, with the summed prompt and completion tokens of the model
\* calls that returned (the forced one included); a turn rejected at the
\* gate or failing before or in the loop never calls it.
C13_UsageRecordedOnce ==
    /\ [](Len(tRecorded) <= 1)
    /\ [](tPc # "done" => tRecorded = <<>>)
    /\ [](tPc = "done" /\ ~LoopCompleted => tRecorded = <<>>)
    /\ [](LoopCompleted =>
            /\ Len(tRecorded) = 1
            /\ \A u \in Usages :
                  /\ tRecorded[1].prompt_tokens = tLlmOk * u.prompt_tokens
                  /\ tRecorded[1].completion_tokens = tLlmOk * u.completion_tokens)
    /\ [][tRecorded' # tRecorded => tPc = "record" /\ tLlmCalls' = tLlmCalls]_vars

\* A turn whose forced call failed completed and recorded the tokens of
\* the MAX_LOOPS calls that returned.
C13_Witness ==
    /\ LoopCompleted
    /\ tOut.status = 200
    /\ tLlmCalls = MAX_LOOPS + 1
    /\ tLlmOk = MAX_LOOPS
    /\ Len(tRecorded) = 1
    /\ tRecorded[1].prompt_tokens > 0

\* C26: a turn that fails without being recovered is answered with the
\* generic failure response: what the exception says of itself is no part
\* of what the caller gets.
C26_FailureResponseGeneric ==
    tOut.status = 500 =>
        /\ tOut.exc \notin SeqRange(tOut.detail)
        /\ tOut.detail = GenericDetail

\* C28: a completed turn persists and returns the request's new messages
\* followed by one assistant message holding the final answer, and no tool
\* message.
C28_OnlyRequestAndAnswerKept ==
    tOut.status = 200 =>
        LET kept == ReqMessages
                      \o << [role |-> "assistant", content |-> tOut.final_answer] >>
        IN  /\ tOut.persisted = kept
            /\ tOut.messages = kept
            /\ \A i \in 1..Len(tOut.persisted) : tOut.persisted[i].role # "tool"
            /\ \A i \in 1..Len(tOut.messages) : tOut.messages[i].role # "tool"

\* A turn completed after a batch of two tool calls.
C28_Witness ==
    /\ tOut.status = 200
    /\ Len(tResults) = 2
    /\ Len(tOut.persisted) = Len(ReqMessages) + 1

\* A model call of the loop that returned, and the forced call.
LoopCallReturns == tPc = "model" /\ tLlmOk' = tLlmOk + 1

ForcedCall == tPc = "forced" /\ tLlmCalls' = tLlmCalls + 1

\* C29: the forced generation is called when, and only when, MAX_LOOPS
\* iterations have each ended with tool calls, and once; a response without
\* tool calls ends the loop at once and its content is the final answer; a
\* forced call that raises leaves the turn to complete with the content of
\* the transcript's last message, a tool result, as the final answer.
C29_ForcedCallOnceAfterMaxLoops ==
    [][/\ ForcedCall =>
             /\ loop_count = MAX_LOOPS
             /\ tLlmCalls = MAX_LOOPS
             /\ tLlmOk = MAX_LOOPS
             /\ tPc' = "record"
       /\ loop_count' = MAX_LOOPS /\ loop_count # MAX_LOOPS => tPc' = "forced"
       /\ tPc' = "forced" => loop_count' = MAX_LOOPS
       /\ LoopCallReturns /\ tBatch' = <<>> =>
             /\ tPc' = "record"
             /\ tLast'.role = "assistant"
       /\ ForcedCall /\ tLlmOk' = tLlmOk =>
             /\ tLast' = tLast
             /\ tLast.role = "tool"
       /\ tPc = "record" /\ tPc' = "done" =>
             /\ tLlmCalls' = tLlmCalls
             /\ tOut'.status = 200 => tOut'.final_answer = tLast.content
             /\ tLast.role = "tool" => tOut'.status = 200]_vars

\* The forced call was made and raised, and the turn completed.
C29_Witness ==
    /\ tOut.status = 200
    /\ tLlmCalls = MAX_LOOPS + 1
    /\ tLlmOk = MAX_LOOPS
    /\ tLast.role = "tool"
    /\ tOut.final_answer = tLast.content

\* C30: when the model is called after a response that carried n tool
\* calls, n tool messages have been appended since, the i-th for the i-th
\* call, and the usage log has got the same n calls in the same order.
C30_OneResultPerToolCall ==
    [][tLlmCalls' = tLlmCalls + 1 /\ tBatch # <<>> =>
          /\ Len(tResults) = Len(tBatch)
          /\ \A i \in 1..Len(tBatch) : tResults[i].call_id = i
          /\ tLogTail = [i \in 1..Len(tBatch) |-> ToolLogEntry(tBatch[i])]]_vars

\* The model is about to be called after a batch of two calls, the first
\* with arguments that did not parse, the second raised by the tool.
C30_Witness ==
    /\ tPc \in {"model", "forced"}
    /\ Len(tBatch) = 2
    /\ Len(tResults) = 2
    /\ tResults[1].raised = "json"
    /\ tResults[2].raised = "tool"

(***************************************************************************)
(* Claims about usage accounting (SpecUsage).                              *)
(***************************************************************************)
\* The record_usage calls on `key` whose session committed.
Committed(key) == { t \in RuTxns : ruTxn[t].pc = "committed" /\ ruTxn[t].key = key }

RECURSIVE SumTokens(_, _)
SumTokens(txns, field) ==
    IF txns = {} THEN 0
    ELSE LET t == CHOOSE x \in txns : TRUE
         IN  ruTxn[t][field] + SumTokens(txns \ {t}, field)

\* C12: record_usage calls on one (wiki, user, date), however they
\* interleave, leave one row for that key whose prompt, completion and total
\* tokens are the sums over the calls and whose request_count is the number
\* of calls; no field of a row ever decreases.
C12_ConcurrentUsageAdds ==
    /\ [](\A key \in UsageKeys :
            IF Committed(key) = {} THEN key \notin DOMAIN ruTable
            ELSE /\ key \in DOMAIN ruTable
                 /\ ruTable[key].prompt_tokens = SumTokens(Committed(key), "prompt_tokens")
                 /\ ruTable[key].completion_tokens =
                        SumTokens(Committed(key), "completion_tokens")
                 /\ ruTable[key].total_tokens =
                        SumTokens(Committed(key), "prompt_tokens")
                        + SumTokens(Committed(key), "completion_tokens")
                 /\ ruTable[key].request_count = Cardinality(Committed(key)))
    /\ [][\A key \in DOMAIN ruTable :
            /\ key \in DOMAIN ruTable'
            /\ ruTable'[key].prompt_tokens >= ruTable[key].prompt_tokens
            /\ ruTable'[key].completion_tokens >= ruTable[key].completion_tokens
            /\ ruTable'[key].total_tokens >= ruTable[key].total_tokens
            /\ ruTable'[key].request_count >= ruTable[key].request_count]_vars

\* Two calls on one key committed, one of them made while the other was in
\* flight.
C12_Witness ==
    \E key \in UsageKeys :
        /\ Cardinality(Committed(key)) >= 2
        /\ \E t \in Committed(key) : ruTxn[t].overlapped
        /\ ruTable[key].total_tokens > 0

\* The user of the last UsageStatus has rows of earlier dates only.
OnlyEarlierRows(table, out) ==
    \A d \in Dates :
        <<out.wiki_id, out.user_id, d>> \in DOMAIN table => d < out.day

\* C14: a check_limit on a date later than every row of the user reports
\* tokens_used 0 and is_limited false, and changes no row.
C14_LaterDateStartsFresh ==
    [][ruOut'.op = "check" /\ ruOut' # ruOut =>
          /\ ruTable' = ruTable
          /\ OnlyEarlierRows(ruTable, ruOut') =>
                /\ ruOut'.status.tokens_used = 0
                /\ ruOut'.status.requests_today = 0
                /\ ~ruOut'.status.is_limited]_vars

\* A user who reached the limit on day 1 was checked on day 2.
C14_Witness ==
    /\ ruOut.op = "check"
    /\ ruOut.day = 2
    /\ <<ruOut.wiki_id, ruOut.user_id, 1>> \in DOMAIN ruTable
    /\ ruTable[<<ruOut.wiki_id, ruOut.user_id, 1>>].total_tokens >= DailyTokenLimit
    /\ OnlyEarlierRows(ruTable, ruOut)
    /\ ruOut.status.tokens_used = 0
    /\ ~ruOut.status.is_limited

(***************************************************************************)
(* Claims about a FaissIndex under concurrent callers (SpecIndex).         *)
(***************************************************************************)
\* No hit of any search on idx carries the title.
NoHitFor(idx, page_title) ==
    \A q \in IxQueries, k \in 1..MaxK :
        (ixDim = 0 \/ ixDim = Len(q)) =>
            \A hits \in FaissSearch(idx, q, k) :
                \A i \in 1..Len(hits) : hits[i].doc.page_title # page_title

\* C15: when delete_page(title) has returned, no record of that title is
\* left and the other records are as before, a search that follows returns
\* no hit for the title, the call returned the number of records it removed
\* (0 when there was none), and after n chunks are added again under the
\* title the index counts exactly n records for it.
C15_DeletePageRemovesAll ==
    /\ ixOut.op = "delete" =>
          LET removed == PageIds(ixOut.pre, ixOut.page_title)
          IN  /\ PageIds(ixIndex, ixOut.page_title) = {}
              /\ DOMAIN ixIndex.doc_map = DOMAIN ixOut.pre.doc_map \ removed
              /\ DOMAIN ixIndex.vectors = DOMAIN ixOut.pre.vectors \ removed
              /\ \A i \in DOMAIN ixIndex.doc_map : ixIndex.doc_map[i] = ixOut.pre.doc_map[i]
              /\ ixOut.count = Cardinality(removed)
              /\ NoHitFor(ixIndex, ixOut.page_title)
    /\ ( /\ ixOut.op = "add"
         /\ ~ixOut.raised
         /\ Len(ixOut.docs) > 0
         /\ PageIds(ixOut.pre, ixDeleted) = {}
         /\ \A i \in 1..Len(ixOut.docs) : ixOut.docs[i].page_title = ixDeleted ) =>
            /\ Cardinality(PageIds(ixIndex, ixDeleted)) = Len(ixOut.docs)
            /\ GetStats(ixIndex).total_vectors =
                   GetStats(ixOut.pre).total_vectors + Len(ixOut.docs)
            /\ ixDeleted \in GetStats(ixIndex).embedded_pages

\* The only record was deleted and two chunks were added under the deleted
\* title.
C15_Witness ==
    /\ ixOut.op = "add"
    /\ ~ixOut.raised
    /\ Len(ixOut.docs) = 2
    /\ ixOut.docs[1].page_title = ixDeleted
    /\ ixOut.pre.built
    /\ ixOut.pre.next_id = 1
    /\ ixOut.pre.doc_map = EmptyFn
    /\ GetStats(ixIndex).total_vectors = 2

\* The add_documents call is one the claim has rejected.
MustReject(docs, embeddings, idx) ==
    \/ Len(embeddings) = 0
    \/ Len(embeddings) # Len(docs)
    \/ \E i \in 1..Len(embeddings) : Len(embeddings[i]) # Len(embeddings[1])
    \/ idx.built /\ Len(embeddings[1]) # ixDim

\* C17: add_documents raises when the embeddings are empty, are not as
\* many as the documents, differ in dimension among themselves or from the
\* index; an add that raised leaves the documents, the index and the id
\* counter as they were.
C17_RejectedAddChangesNothing ==
    ixOut.op = "add" =>
        /\ MustReject(ixOut.docs, ixOut.embeddings, ixOut.pre) => ixOut.raised
        /\ ixOut.raised => ixIndex = ixOut.pre

\* C18: a search that runs while delete_page or add_documents is at work
\* returns what the index gives before or after that operation, only
\* records the document map holds, and the map and the FAISS index agree
\* whenever a search can read them.
C18_SearchSeesWholeOperations ==
    /\ ixLock = "free" => DOMAIN ixIndex.vectors = DOMAIN ixIndex.doc_map
    /\ (ixOut.op = "search" /\ ~ixOut.raised /\ ixDim = Len(ixOut.q)) =>
          /\ ixOut.hits \in FaissSearch(ixOut.pre, ixOut.q, ixOut.k)
                             \cup FaissSearch(ixOut.post, ixOut.q, ixOut.k)
          /\ \A i \in 1..Len(ixOut.hits) :
                /\ ixOut.hits[i].id \in DOMAIN ixIndex.doc_map
                /\ ixIndex.doc_map[ixOut.hits[i].id] = ixOut.hits[i].doc

\* A search that waited for a writer returned a hit after a page was deleted.
C18_Witness ==
    /\ ixOut.op = "search"
    /\ ixOut.overlapped
    /\ ixOut.hits # <<>>
    /\ ixDeleted # ""

(***************************************************************************)
(* Claims about re-indexing a page (SpecReindex).                          *)
(***************************************************************************)
\* C16: after an attempt to index page P with n new chunks the index holds
\* either exactly P's previous records (the attempt failed) or exactly the
\* n new records (it succeeded); a failing embedding never leaves the page
\* without its records.
C16_ReindexAllOrNothing ==
    rxJob.pc = "done" =>
        IF rxJob.outcome = "failed"
        THEN PageRecords(ixIndex, rxJob.title) = PageRecords(rxJob.before, rxJob.title)
        ELSE /\ Cardinality(PageIds(ixIndex, rxJob.title)) = Len(rxJob.docs)
             /\ PageIds(ixIndex, rxJob.title) \cap DOMAIN rxJob.before.doc_map = {}

\* C27: a page-update request is answered with status 'queued', and when
\* it is answered the handler has deleted, embedded, added and saved
\* nothing: the index and its files are as the request found them.
C27_UpdateOnlyEnqueues ==
    /\ rxJob.pc # "idle" => ixIndex = rxJob.before
    /\ rxJob.pc = "done" =>
          /\ rxJob.outcome = "queued"
          /\ rxFiles = Save(rxJob.before, NoFiles, "none")

(***************************************************************************)
(* Claims about tenant isolation (SpecFaiss).                              *)
(***************************************************************************)
\* C1: a search issued under one tenant id returns no record that was
\* added under a different tenant id.
C1_NoCrossTenantHits ==
    fxOut.op = "search" =>
        \A i \in 1..Len(fxOut.hits) : fxOut.hits[i].doc.owner = fxOut.wiki_id

\* C19: get_tenant_index accepts a wiki id only if it is 1 to 64 letters,
\* digits, hyphens and underscores; any other value raises
\* InvalidTenantError and gets no registry entry (and with it no storage).
C19_OnlyCharsetIdsAccepted ==
    /\ \A w \in DOMAIN index_registry : MatchesPattern(w)
    /\ fxOut.kind = "raise" => fxOut.wiki_id \notin DOMAIN index_registry

\* C20: calls of get_tenant_index with one wiki id get the one index the
\* registry holds for it (an entry, once made, stays), and no two registry
\* entries have the same storage location.
C20_OneEntryPerLocation ==
    /\ [](\A w1, w2 \in DOMAIN index_registry :
            TenantDataPath(w1) = TenantDataPath(w2) => w1 = w2)
    /\ [][DOMAIN index_registry \subseteq DOMAIN index_registry']_vars

(***************************************************************************)
(* Claims about loading and saving the tenant indexes (SpecPersist).       *)
(***************************************************************************)
\* The get_tenant_index step that creates the entry of w.
CreatesEntry(w) ==
    /\ fxOut'.op = "get"
    /\ fxOut'.wiki_id = w
    /\ w \notin DOMAIN index_registry

\* C21: the first access to a tenant whose files are absent returns a fresh
\* empty index without error, and the first access to a tenant whose index
\* or metadata file is there but unreadable fails: no index is registered
\* or handed out for it.
C21_CorruptLoadIsFatal ==
    [][\A w \in PsWikiIds :
          CreatesEntry(w) =>
             LET files == FilesAt(disk, TenantDataPath(w))
             IN  /\ ~files.index_file =>
                       /\ fxOut'.kind = "return"
                       /\ index_registry'[w] = NewFaissIndex
                 /\ LoadRaises(files) =>
                       /\ fxOut'.kind = "raise"
                       /\ w \notin DOMAIN index_registry']_vars

\* The entries whose save returned in the save_all step.
SavedEntries == { w \in DOMAIN index_registry :
                    ~SaveRaises(index_registry[w], fxOut'.faults[w]) }

\* C22: save_all_tenant_indexes never raises, returns the number of entries
\* whose save did not raise, and every such entry is on disk afterwards as
\* its save writes it, whichever other entries failed.
C22_SaveAllFlushesEach ==
    [][fxOut'.op = "save_all" =>
          /\ fxOut'.kind = "return"
          /\ fxOut'.count = Cardinality(SavedEntries)
          /\ \A w \in SavedEntries :
                index_registry[w].built =>
                   FilesAt(disk', TenantDataPath(w)) =
                      Save(index_registry[w], FilesAt(disk, TenantDataPath(w)), "none")]_vars

\* Two entries, the first one's save raised, the second one was written and
\* counted.
C22_Witness ==
    /\ fxOut.op = "save_all"
    /\ Len(registry_order) = 2
    /\ fxOut.faults[registry_order[1]] # "none"
    /\ index_registry[registry_order[1]].built
    /\ fxOut.faults[registry_order[2]] = "none"
    /\ index_registry[registry_order[2]].built
    /\ fxOut.count = 1
    /\ FilesAt(disk, TenantDataPath(registry_order[2])).doc_map =
          index_registry[registry_order[2]].doc_map
    /\ \E i \in DOMAIN index_registry[registry_order[2]].doc_map :
          index_registry[registry_order[2]].doc_map[i].page_title = "Beta"

(***************************************************************************)
(* Claims about the vector store and the schema tools (SpecStore).         *)
(***************************************************************************)
\* The live records of a wiki, and those of one namespace.
LiveKeys(w) == { key \in StKeys : key.wiki_id = w /\ stLive[key] > 0 }

LiveTitles(w, n) == { key.page_title : key \in { x \in LiveKeys(w) : x.namespace = n } }

\* C23: at every point of a sequence of adds and page deletions, the stats
\* of a wiki give the number of its live records and of their distinct
\* titles, and the listing of a namespace gives exactly the distinct titles
\* with a live record in it, each once.
C23_StatsAndListingsAreLive ==
    \A w \in StWikis :
       LET stats == StoreGetStats(stRows, w)
       IN  /\ stats.total_vectors = RowCount(stLive, LiveKeys(w))
           /\ stats.total_pages = Cardinality({ key.page_title : key \in LiveKeys(w) })
           /\ \A n \in {NS_MAIN, NS_CATEGORY, NS_PROPERTY} :
                 LET listed == GetPagesByNamespace(stRows, w, Some(n))
                 IN  /\ SeqRange(listed) = LiveTitles(w, n)
                     /\ Len(listed) = Cardinality(LiveTitles(w, n))
           /\ stOut.op = "stats" /\ stOut.wiki_id = w => stOut.result = stats

\* Alpha with two chunks in namespace 0 and Beta with one in namespace 14:
\* 3 vectors, 2 pages, Beta the listing of namespace 14.
C23_Witness ==
    /\ stOut.op = "stats"
    /\ stOut.wiki_id = "a"
    /\ stOut.result.total_vectors = 3
    /\ stOut.result.total_pages = 2
    /\ stRows[[wiki_id |-> "a", page_title |-> "Alpha", namespace |-> NS_MAIN]] = 2
    /\ stRows[[wiki_id |-> "a", page_title |-> "Beta", namespace |-> NS_CATEGORY]] = 1
    /\ GetPagesByNamespace(stRows, "a", Some(NS_CATEGORY)) = <<"Beta">>

\* C24: mw_get_categories with a names list returns the titles
\* 'Category:<name>' of exactly the given names whose category page has a
\* live record of namespace 14 in the caller's wiki.
C24_GetCategoriesValidatesNames ==
    stOut.op = "get_categories" /\ stOut.arg # <<>> =>
        /\ stOut.kind = "return"
        /\ SeqRange(stOut.result) =
              { "Category:" \o name : name \in
                  { x \in SeqRange(stOut.arg) :
                      ("Category:" \o x) \in LiveTitles(stOut.wiki_id, NS_CATEGORY) } }

\* names = [Science, DoesNotExist] over a wiki holding Category:Science in
\* namespace 14 gives [Category:Science].
C24_Witness ==
    /\ stOut.op = "get_categories"
    /\ stOut.arg = <<"Science", "DoesNotExist">>
    /\ stOut.result = <<"Category:Science">>

\* The namespace id a supplied value stands for: a JSON integer, a string
\* of digits, or an alias of the name table whatever its case.
StandsFor(raw_ns) ==
    IF raw_ns.type = "int" THEN Some(raw_ns.int)
    ELSE IF raw_ns.type = "str" /\ IsDigit(raw_ns.chars) THEN Some(ParseInt(raw_ns.chars))
    ELSE IF raw_ns.type = "str" /\ \E a \in NamespaceAliases : a.name = Strip(Lower(raw_ns.chars))
    THEN Some(AliasId(Strip(Lower(raw_ns.chars))))
    ELSE None

\* C25: mw_list_pages with a supplied namespace lists the pages of the
\* namespace the value stands for, or raises a validation error when it
\* stands for none; it never lists without the filter.
C25_UnresolvedNamespaceRejected ==
    stOut.op = "list_pages" /\ stOut.arg.type # "none" =>
        IF StandsFor(stOut.arg).some
        THEN /\ stOut.kind = "return"
             /\ SeqRange(stOut.result) = LiveTitles(stOut.wiki_id, StandsFor(stOut.arg).val)
        ELSE stOut.kind = "raise"

(***************************************************************************)
(* Identifier assignment in one tenant's FaissIndex.                       *)
(***************************************************************************)

\* C31: across add, delete_page, rebuild, save and load on one tenant's
\* index, a step never moves the id counter back and every id the step
\* brings into the map is at or above the counter before the step, so an
\* id is assigned once and a deleted id is not handed out again.
C31_IdsNeverReused ==
    [][\A w \in DOMAIN index_registry :
          /\ index_registry'[w].next_id >= index_registry[w].next_id
          /\ \A i \in (DOMAIN index_registry'[w].doc_map) \ (DOMAIN index_registry[w].doc_map) :
                i >= index_registry[w].next_id]_vars

(***************************************************************************)
(* rebuild on one FaissIndex under concurrent callers.                     *)
(***************************************************************************)

\* C32: rebuild is atomic: a search that returns has computed its hits on
\* the contents before or on the contents after the operation it
\* overlapped, and a rebuild that raises leaves the contents it found.
C32_RebuildIsAtomic ==
    /\ (ixOut.op = "search" /\ ~ixOut.raised) =>
          \/ ixOut.hits \in FaissSearch(ixOut.pre, ixOut.q, ixOut.k)
          \/ ixOut.hits \in FaissSearch(ixOut.post, ixOut.q, ixOut.k)
    /\ (ixOut.op = "rebuild" /\ ixOut.raised) => ixOut.post = ixOut.pre

(***************************************************************************)
(* save followed by load in a fresh FaissIndex over the same paths.        *)
(***************************************************************************)

\* C33: for every index the registry holds after add, delete_page and
\* rebuild (under a wiki id that is alone in its directory), save()
\* followed by load() in a fresh index over the same paths gives back the
\* same id-to-document map, the same indexed ids and the same id counter.
C33_SaveLoadRoundTrip ==
    \A w \in DOMAIN index_registry :
        LET idx   == index_registry[w]
            files == Save(idx, FilesAt(disk, TenantDataPath(w)), "none")
            back  == Load(NewFaissIndex, files)
        IN  (\A x \in DOMAIN index_registry : TenantDataPath(x) = TenantDataPath(w) => x = w) =>
            /\ back.doc_map = idx.doc_map
            /\ DOMAIN back.vectors = DOMAIN idx.vectors
            /\ back.next_id = idx.next_id

(***************************************************************************)
(* Two update_page_embedding requests on one tenant's FaissIndex           *)
(* (api/embedding_routes.py).  The handlers are coroutines of one event    *)
(* loop: a handler runs from one await to the next without interruption,   *)
(* and `await embedder.embed(...)` is the only await between delete_page   *)
(* and add_documents.                                                      *)
(***************************************************************************)
UpHandlers == {1, 2}

UpTitles == {"Alpha", "Beta"}

\* _chunk_text and _build_documents on the content request h posts for a
\* title: n documents, the i-th with the i-th piece of the request's text.
UpDocs(h, title, n) ==
    [i \in 1..n |-> [page_title |-> title, namespace |-> NS_MAIN, text |-> <<h, i>>]]

NoUpJob == [pc |-> "idle", title |-> "", docs |-> <<>>, outcome |-> ""]

UpsertInit ==
    /\ upIndex = NewFaissIndex
    /\ upFiles = NoFiles
    /\ upJobs = [h \in UpHandlers |-> NoUpJob]

RECURSIVE Awaited(_, _)
\* The chunks of the requests in hs that wait for their embeddings.
Awaited(jobs, hs) ==
    IF hs = {} THEN 0
    ELSE LET h == CHOOSE x \in hs : TRUE
         IN  (IF jobs[h].pc = "embed" THEN Len(jobs[h].docs) ELSE 0)
                + Awaited(jobs, hs \ {h})

\* The content has no chunk: the page is deleted, the index saved, and the
\* request answers "deleted".
UpEmptyContent(h) ==
    /\ upJobs[h].pc \in {"idle", "done"}
    /\ \E title \in UpTitles :
         /\ upIndex' = DeletePage(upIndex, title)
         /\ upJobs' = [upJobs EXCEPT ![h] =
                          [pc |-> "done", title |-> title, docs |-> <<>>,
                           outcome |-> "deleted"]]
    /\ upFiles' = Save(upIndex', upFiles, "none")
    /\ UNCHANGED NotUpsert

\* The page's chunks are deleted; the handler awaits the embedder.
UpDelete(h) ==
    /\ upJobs[h].pc \in {"idle", "done"}
    /\ \E title \in UpTitles, n \in 1..MaxChunks :
         /\ upIndex.next_id + Awaited(upJobs, UpHandlers \ {h}) + n <= MaxUpIds
         /\ upIndex' = DeletePage(upIndex, title)
         /\ upJobs' = [upJobs EXCEPT ![h] =
                          [pc |-> "embed", title |-> title,
                           docs |-> UpDocs(h, title, n), outcome |-> ""]]
    /\ UNCHANGED <<upFiles, NotUpsert>>

\* embedder.embed raises: the request fails.
UpEmbedRaises(h) ==
    /\ upJobs[h].pc = "embed"
    /\ upJobs' = [upJobs EXCEPT ![h].pc = "done", ![h].outcome = "failed"]
    /\ UNCHANGED <<upIndex, upFiles, NotUpsert>>

\* The embeddings arrive: the chunks are added and the index is saved.
UpEmbedded(h) ==
    /\ upJobs[h].pc = "embed"
    /\ upIndex' = AddDocuments(upIndex, upJobs[h].docs, RxEmbeddings(upJobs[h].docs))
    /\ upFiles' = Save(upIndex', upFiles, "none")
    /\ upJobs' = [upJobs EXCEPT ![h].pc = "done", ![h].outcome = "updated"]
    /\ UNCHANGED NotUpsert

UpsertNext ==
    \/ \E h \in UpHandlers : UpEmptyContent(h)
    \/ \E h \in UpHandlers : UpDelete(h)
    \/ \E h \in UpHandlers : UpEmbedRaises(h)
    \/ \E h \in UpHandlers : UpEmbedded(h)

\* The chunks the index holds for a page.
StoredChunks(idx, page_title) ==
    {idx.doc_map[i] : i \in PageIds(idx, page_title)}

SeqItems(s) == {s[i] : i \in 1..Len(s)}

\* C34: when two upserts of the same page title have both completed, the
\* index holds exactly the chunks of one of them, never the union of both.
C34_ConcurrentUpsertsKeepOneChunkSet ==
    \A g, h \in UpHandlers :
        (/\ g # h
         /\ upJobs[g].pc = "done" /\ upJobs[g].outcome = "updated"
         /\ upJobs[h].pc = "done" /\ upJobs[h].outcome = "updated"
         /\ upJobs[g].title = upJobs[h].title) =>
            /\ StoredChunks(upIndex, upJobs[g].title)
                  \in {SeqItems(upJobs[g].docs), SeqItems(upJobs[h].docs)}
            /\ Cardinality(PageIds(upIndex, upJobs[g].title))
                  \in {Len(upJobs[g].docs), Len(upJobs[h].docs)}

(***************************************************************************)
(* Two chat requests of one user of one tenant on the same day             *)
(* (api/chat_routes.py): each checks the limit once, at its start, makes   *)
(* its llm.chat calls, and records its usage at its end.  The handler, the *)
(* rate limiter and the vector store of a request share one AsyncSession   *)
(* (api/dependencies.py); what the request adds and flushes is staged in   *)
(* it until get_async_session commits or gives the session up.             *)
(***************************************************************************)
CtTurns == {1, 2}

CtUser == [wiki_id |-> "a", user_id |-> 1]

\* date.today() while the two requests run.
CtClock == [today |-> 1]

\* chat_result.usage of one llm.chat call.
CtUsages ==
    { [prompt_tokens |-> 1, completion_tokens |-> 0],
      [prompt_tokens |-> 2, completion_tokens |-> 1] }

NoCtTurn ==
    [pc |-> "idle", calls |-> 0, prompt_tokens |-> 0, completion_tokens |-> 0,
     staged |-> {}, status |-> 0]

NoChat == [sessions |-> 0, messages |-> 0]

GateInit ==
    /\ ctTable = EmptyFn
    /\ ctChat = NoChat
    /\ ctTurns = [t \in CtTurns |-> NoCtTurn]

\* The usage check_limit reads for the user today.
CtUsed == CheckLimit(ctTable, CtUser.wiki_id, CtUser.user_id, CtClock.today)

\* Mutant of get_async_session: the session commits when the handler raised.
SessionExit_CommitsAlways(table, chat, turn, raised) ==
    [ table |-> IF "usage" \in turn.staged
                THEN RecordUsage(table, CtUser.wiki_id, CtUser.user_id, CtClock.today,
                                 turn.prompt_tokens, turn.completion_tokens)
                ELSE table,
      chat  |-> [ sessions |-> chat.sessions + (IF "session" \in turn.staged THEN 1 ELSE 0),
                  messages |-> chat.messages + (IF "messages" \in turn.staged THEN 2 ELSE 0) ] ]

\* get_async_session after the handler: commit when it returned; when it
\* raised, no commit, and what the request staged is dropped.
SessionExit(table, chat, turn, raised) ==
    IF raised THEN [table |-> table, chat |-> chat]
    ELSE [ table |-> IF "usage" \in turn.staged
                     THEN RecordUsage(table, CtUser.wiki_id, CtUser.user_id, CtClock.today,
                                      turn.prompt_tokens, turn.completion_tokens)
                     ELSE table,
           chat  |-> [ sessions |-> chat.sessions + (IF "session" \in turn.staged THEN 1 ELSE 0),
                       messages |-> chat.messages + (IF "messages" \in turn.staged THEN 2 ELSE 0) ] ]

\* The handler of request t returns (200) or raises with `turn` as the
\* request's state; get_async_session ends the session.
CtEnds(t, turn, status) ==
    LET db == SessionExit(ctTable, ctChat, turn, status # 200)
    IN  /\ ctTable' = db.table
        /\ ctChat' = db.chat
        /\ ctTurns' = [ctTurns EXCEPT ![t] = [turn EXCEPT !.pc = "done", !.status = status]]

\* 0. check_limit answers is_limited: 429.
CtGateRejects(t) ==
    /\ ctTurns[t].pc \in {"idle", "done"}
    /\ CtUsed.is_limited
    /\ CtEnds(t, NoCtTurn, 429)
    /\ UNCHANGED NotGate

\* 0-2. check_limit answers not limited; a ChatSession is added and
\* flushed and the prompt is built.
CtGatePasses(t) ==
    /\ ctTurns[t].pc \in {"idle", "done"}
    /\ ~CtUsed.is_limited
    /\ ctTurns' = [ctTurns EXCEPT ![t] =
                      [NoCtTurn EXCEPT !.pc = "model", !.staged = {"session"}]]
    /\ UNCHANGED <<ctTable, ctChat, NotGate>>

\* 3. llm.chat returns with tool calls: its usage is added to the request's
\* totals, the tools run and the loop goes on.
CtModelCallsTools(t) ==
    /\ ctTurns[t].pc = "model"
    /\ ctTurns[t].calls + 1 < MaxTurnCalls
    /\ \E u \in CtUsages :
          ctTurns' = [ctTurns EXCEPT
                         ![t].calls = @ + 1,
                         ![t].prompt_tokens = @ + u.prompt_tokens,
                         ![t].completion_tokens = @ + u.completion_tokens]
    /\ UNCHANGED <<ctTable, ctChat, NotGate>>

\* 3. llm.chat returns the final answer (or the loop's last response).
CtModelAnswers(t) ==
    /\ ctTurns[t].pc = "model"
    /\ \E u \in CtUsages :
          ctTurns' = [ctTurns EXCEPT
                         ![t].pc = "record",
                         ![t].calls = @ + 1,
                         ![t].prompt_tokens = @ + u.prompt_tokens,
                         ![t].completion_tokens = @ + u.completion_tokens]
    /\ UNCHANGED <<ctTable, ctChat, NotGate>>

\* 3. llm.chat raises inside the loop: 500.
CtModelRaises(t) ==
    /\ ctTurns[t].pc = "model"
    /\ CtEnds(t, [ctTurns[t] EXCEPT !.calls = @ + 1], 500)
    /\ UNCHANGED NotGate

\* 4. record_usage: the upsert is executed and flushed; it waits for the
\* row while another request holds it.
CtRecordUsage(t) ==
    /\ ctTurns[t].pc = "record"
    /\ \A o \in CtTurns \ {t} : "usage" \notin ctTurns[o].staged \/ ctTurns[o].pc = "done"
    /\ ctTurns' = [ctTurns EXCEPT ![t].pc = "persist", ![t].staged = @ \cup {"usage"}]
    /\ UNCHANGED <<ctTable, ctChat, NotGate>>

\* 4. record_usage raises: the exception leaves the handler, 500.
CtRecordRaises(t) ==
    /\ ctTurns[t].pc = "record"
    /\ CtEnds(t, ctTurns[t], 500)
    /\ UNCHANGED NotGate

\* 5-7. The request's message and the answer are added to the session and
\* the handler returns.
CtReturns(t) ==
    /\ ctTurns[t].pc = "persist"
    /\ CtEnds(t, [ctTurns[t] EXCEPT !.staged = @ \cup {"messages"}], 200)
    /\ UNCHANGED NotGate

GateNext ==
    \/ \E t \in CtTurns : CtGateRejects(t)
    \/ \E t \in CtTurns : CtGatePasses(t)
    \/ \E t \in CtTurns : CtModelCallsTools(t)
    \/ \E t \in CtTurns : CtModelAnswers(t)
    \/ \E t \in CtTurns : CtModelRaises(t)
    \/ \E t \in CtTurns : CtRecordUsage(t)
    \/ \E t \in CtTurns : CtRecordRaises(t)
    \/ \E t \in CtTurns : CtReturns(t)

\* C35: whenever a request of the user makes an llm.chat call, the user's
\* recorded usage for today is below the daily limit, also while another
\* request of the same user is under way.
C35_LlmCallsOnlyBelowLimit ==
    [][\A t \in CtTurns :
          ctTurns'[t].calls > ctTurns[t].calls => CtUsed.tokens_used < DailyTokenLimit]_vars

(***************************************************************************)
(* The ids of the FAISS index and the keys of the document map.            *)
(***************************************************************************)
IdsMatchDocMap(idx) == DOMAIN idx.vectors = DOMAIN idx.doc_map

\* C36: every completed add, delete_page, rebuild or load leaves the ids
\* held by the FAISS index equal to the keys of the document map: an index
\* whose load returned has them equal, and a step on an index that has
\* them equal keeps them equal.
C36_IndexIdsMatchDocMap ==
    [][\A w \in DOMAIN index_registry' :
          IF w \in DOMAIN index_registry
          THEN IdsMatchDocMap(index_registry[w]) => IdsMatchDocMap(index_registry'[w])
          ELSE ~LoadRaises(FilesAt(disk, TenantDataPath(w))) =>
                   IdsMatchDocMap(index_registry'[w])]_vars

(***************************************************************************)
(* Chat sessions (api/chat_routes.py, db/models.py): chat loads or creates *)
(* the session and stores the exchange, get_session and delete_session     *)
(* look the session up.  A session id is a UUID; a request names one, an   *)
(* id that is no UUID, or (chat) none.                                     *)
(***************************************************************************)
CsUuids == {"u1", "u2"}

CsNamed == CsUuids \cup {"none", "junk"}

CsUsers ==
    { [wiki_id |-> "a", user_id |-> 1],
      [wiki_id |-> "a", user_id |-> 2],
      [wiki_id |-> "b", user_id |-> 1] }

NoCsOut ==
    [op |-> "none", user |-> [wiki_id |-> "", user_id |-> 0], named |-> "none",
     status |-> 0, session_id |-> "none", context |-> <<>>]

SessionInit ==
    /\ csSessions = EmptyFn
    /\ csOut = NoCsOut

\* Mutant of the lookup: the session id alone selects the row.
FindSession_ByIdOnly(sessions, named, user) ==
    IF named \in DOMAIN sessions THEN named ELSE "none"

\* select(ChatSession) where session_id, wiki_id and owner_user_id match:
\* the id of the row found, or "none".
FindSession(sessions, named, user) ==
    IF /\ named \in DOMAIN sessions
       /\ sessions[named].wiki_id = user.wiki_id
       /\ sessions[named].owner_user_id = user.user_id
    THEN named
    ELSE "none"

\* The messages the request carries, and the assistant's answer to them.
CsRequestMessages(user) == << [sender |-> "user", content |-> user] >>

CsAnswer(user) == [sender |-> "assistant", content |-> user]

\* _convert_db_messages_to_llm_format then the request's messages: the
\* context the LLM is called with.
CsContext(history, user) ==
    [i \in 1..Len(history) |-> [role |-> history[i].sender, content |-> history[i].content]]
        \o [i \in 1..Len(CsRequestMessages(user)) |->
                [role |-> CsRequestMessages(user)[i].sender,
                 content |-> CsRequestMessages(user)[i].content]]

\* chat: the named session is loaded when the lookup finds it, a new one is
\* created otherwise; the request's messages and the answer are stored.
CsChat ==
    /\ \E user \in CsUsers, named \in CsNamed, fresh \in CsUuids :
          LET found == IF named \in CsUuids THEN FindSession(csSessions, named, user)
                       ELSE "none"
              sid == IF found # "none" THEN found ELSE fresh
              history == IF found # "none" THEN csSessions[found].messages ELSE <<>>
              stored == history \o CsRequestMessages(user) \o <<CsAnswer(user)>>
          IN  /\ found = "none" => fresh \notin DOMAIN csSessions
              /\ Len(stored) <= MaxMessages
              /\ csSessions' =
                    [s \in DOMAIN csSessions \cup {sid} |->
                        IF s = sid
                        THEN [wiki_id |-> user.wiki_id, owner_user_id |-> user.user_id,
                              messages |-> stored]
                        ELSE csSessions[s]]
              /\ csOut' = [op |-> "chat", user |-> user, named |-> named, status |-> 200,
                           session_id |-> sid, context |-> CsContext(history, user)]
    /\ UNCHANGED NotSession

\* chat ends in an error: 429 at the gate, before the session is looked
\* up, or 500 after it was loaded or created; the request is rolled back.
CsChatFails ==
    /\ \E user \in CsUsers, named \in CsNamed, status \in {429, 500} :
          LET found == IF named \in CsUuids THEN FindSession(csSessions, named, user)
                       ELSE "none"
              history == IF found # "none" THEN csSessions[found].messages ELSE <<>>
          IN  csOut' = [op |-> "chat", user |-> user, named |-> named, status |-> status,
                        session_id |-> IF status = 429 THEN "none" ELSE found,
                        context |-> IF status = 429 THEN <<>>
                                    ELSE CsContext(history, user)]
    /\ UNCHANGED <<csSessions, NotSession>>

\* get_session: 400 for an id that is no UUID, 404 when the lookup finds
\* nothing, else the session's messages.
CsGetSession ==
    /\ \E user \in CsUsers, named \in CsUuids \cup {"junk"} :
          LET found == IF named \in CsUuids THEN FindSession(csSessions, named, user)
                       ELSE "none"
          IN  csOut' = [op |-> "get", user |-> user, named |-> named,
                        status |-> IF named \notin CsUuids THEN 400
                                   ELSE IF found = "none" THEN 404 ELSE 200,
                        session_id |-> found,
                        context |-> IF found = "none" THEN <<>>
                                    ELSE csSessions[found].messages]
    /\ UNCHANGED <<csSessions, NotSession>>

\* delete_session: 400, 404, or the session and its messages are deleted.
CsDeleteSession ==
    /\ \E user \in CsUsers, named \in CsUuids \cup {"junk"} :
          LET found == IF named \in CsUuids THEN FindSession(csSessions, named, user)
                       ELSE "none"
          IN  /\ csSessions' = Restrict(csSessions, DOMAIN csSessions \ {found})
              /\ csOut' = [op |-> "delete", user |-> user, named |-> named,
                           status |-> IF named \notin CsUuids THEN 400
                                      ELSE IF found = "none" THEN 404 ELSE 200,
                           session_id |-> found, context |-> <<>>]
    /\ UNCHANGED NotSession

SessionNext ==
    \/ CsChat
    \/ CsChatFails
    \/ CsGetSession
    \/ CsDeleteSession

\* The session belongs to another tenant or another user than the request's.
Foreign(s, user) == s.wiki_id # user.wiki_id \/ s.owner_user_id # user.user_id

\* C37: a request whose tenant and user are not both the session's neither
\* reads, extends nor deletes it: the session stays as it is, a turn that
\* names it gets a new session and none of its history in the LLM context,
\* and get and delete on it answer 404.
C37_SessionsAreOwnerOnly ==
    [][\A sid \in DOMAIN csSessions :
          Foreign(csSessions[sid], csOut'.user) =>
             /\ sid \in DOMAIN csSessions'
             /\ csSessions'[sid] = csSessions[sid]
             /\ csOut'.named = sid =>
                   /\ csOut'.op \in {"get", "delete"} => csOut'.status = 404
                   /\ csOut'.op = "chat" =>
                         /\ csOut'.session_id # sid
                         /\ csOut'.context \in {<<>>, CsContext(<<>>, csOut'.user)}
                         /\ csOut'.status = 200 =>
                               csSessions'[csOut'.session_id].messages =
                                  CsRequestMessages(csOut'.user) \o <<CsAnswer(csOut'.user)>>]_vars

\* A turn named a session of another user that holds messages, and got a
\* session of its own.
C37_Witness ==
    /\ csOut.op = "chat"
    /\ csOut.status = 200
    /\ csOut.named \in DOMAIN csSessions
    /\ Foreign(csSessions[csOut.named], csOut.user)
    /\ csSessions[csOut.named].messages # <<>>
    /\ csOut.session_id \in DOMAIN csSessions
    /\ csOut.session_id # csOut.named

\* C38: a request that ends in an error (429 at the gate, 500 from a failed
\* llm.chat call or a failed record_usage) commits nothing: the committed
\* chat sessions, chat messages and usage rows change only in the step in
\* which a request returns.
C38_FailedTurnCommitsNothing ==
    [][\A t \in CtTurns :
          (ctTurns'[t] # ctTurns[t] /\ ctTurns'[t].status # 200) =>
              /\ ctTable' = ctTable
              /\ ctChat' = ctChat]_vars

\* record_usage of a request failed after the request had added its
\* session row and its one llm.chat call had returned: nothing is committed.
C38_Witness ==
    \E t \in CtTurns :
        /\ ctTurns[t].pc = "done"
        /\ ctTurns[t].status = 500
        /\ ctTurns[t].calls = 1
        /\ ctTurns[t].prompt_tokens > 0
        /\ "session" \in ctTurns[t].staged
        /\ ctChat.sessions = 0
        /\ ctTable = EmptyFn

(***************************************************************************)
(* VectorStore.search with a namespace filter.                             *)
(***************************************************************************)

\* C39: search called with a namespace filter list returns only rows whose
\* namespace is in the list; with an empty list it returns no row.
C39_SearchHonoursNamespaceFilter ==
    (stOut.op = "search" /\ stOut.arg.filter.given) =>
        \A key \in DOMAIN stOut.result :
            stOut.result[key] > 0 =>
                \E i \in 1..Len(stOut.arg.filter.list) :
                    stOut.arg.filter.list[i] = key.namespace

(***************************************************************************)
(* The embedding queue and its worker (embeddings/queue.py).               *)
(***************************************************************************)
WqPages ==
    { [page_title |-> "Alpha", namespace |-> NS_MAIN],
      [page_title |-> "Beta", namespace |-> NS_CATEGORY] }

\* An EmbeddingJob: the page, the chunks its content splits into, and the
\* position at which it was put.
WqJob(pg, chunks, no) ==
    [wiki_id |-> "a", title |-> pg.page_title, namespace |-> pg.namespace,
     chunks |-> chunks, no |-> no]

NoWqJob == [wiki_id |-> "", title |-> "", namespace |-> 0, chunks |-> 0, no |-> 0]

WorkerInit ==
    /\ wqQueue = <<>>
    /\ wqUnfinished = 0
    /\ wqPut = 0
    /\ wqWorker = [pc |-> "waiting", job |-> NoWqJob]
    /\ wqRows = NoRows

\* enqueue: the job is put at the end of the queue.
WqEnqueue ==
    /\ wqPut < MaxJobs
    /\ \E pg \in WqPages, chunks \in {0, 1} :
          wqQueue' = Append(wqQueue, WqJob(pg, chunks, wqPut + 1))
    /\ wqUnfinished' = wqUnfinished + 1
    /\ wqPut' = wqPut + 1
    /\ UNCHANGED <<wqWorker, wqRows, NotWorker>>

\* The worker's get_next_job returns the oldest job.
WqTakes ==
    /\ wqWorker.pc = "waiting"
    /\ wqQueue # <<>>
    /\ wqWorker' = [pc |-> "processing", job |-> Head(wqQueue)]
    /\ wqQueue' = Tail(wqQueue)
    /\ UNCHANGED <<wqUnfinished, wqPut, wqRows, NotWorker>>

\* _process_single_job on a job that goes through: what the session has
\* committed when it is closed.  Without chunks the function returns after
\* delete_page, before commit.
ProcessSingleJob(rows, job) ==
    IF job.chunks = 0 THEN rows
    ELSE StoreAddDocuments(StoreDeletePage(rows, job.wiki_id, job.title), job.wiki_id,
                           [i \in 1..job.chunks |-> job.title],
                           [i \in 1..job.chunks |-> job.namespace],
                           [i \in 1..job.chunks |-> <<1, 1>>])

\* _process_single_job returns: task_done, and the worker waits again.
WqJobReturns ==
    /\ wqWorker.pc = "processing"
    /\ wqRows' = ProcessSingleJob(wqRows, wqWorker.job)
    /\ wqUnfinished' = wqUnfinished - 1
    /\ wqWorker' = [pc |-> "waiting", job |-> NoWqJob]
    /\ UNCHANGED <<wqQueue, wqPut, NotWorker>>

\* _process_single_job raises (the store or the embedder failed): nothing
\* is committed, the worker logs the exception and continues its loop.
WqJobRaises ==
    /\ wqWorker.pc = "processing"
    /\ wqWorker' = [pc |-> "waiting", job |-> NoWqJob]
    /\ UNCHANGED <<wqQueue, wqUnfinished, wqPut, wqRows, NotWorker>>

\* The worker task is cancelled at an await: the loop is left.
WqCancelled ==
    /\ wqWorker.pc \in {"waiting", "processing"}
    /\ wqWorker' = [pc |-> "cancelled", job |-> NoWqJob]
    /\ UNCHANGED <<wqQueue, wqUnfinished, wqPut, wqRows, NotWorker>>

WorkerNext ==
    \/ WqEnqueue
    \/ WqTakes
    \/ WqJobReturns
    \/ WqJobRaises
    \/ WqCancelled

\* C40: the worker marks every job it has taken done exactly once, whether
\* its processing returned or raised: while the worker runs, the queue's
\* count of unfinished jobs is the number of jobs waiting or in process,
\* so it does not stay above zero after a failing job.
C40_EveryJobMarkedDone ==
    wqWorker.pc # "cancelled" =>
        wqUnfinished = Len(wqQueue) + (IF wqWorker.pc = "processing" THEN 1 ELSE 0)

(***************************************************************************)
(* Specifications.                                                         *)
(***************************************************************************)
\* The upsert handlers are not mounted: no index, no files, no request.
UpsertIdle ==
    /\ upIndex = EmptyFn
    /\ upFiles = EmptyFn
    /\ upJobs = EmptyFn

\* No chat request runs and no table is connected.
GateIdle ==
    /\ ctTable = EmptyFn
    /\ ctChat = EmptyFn
    /\ ctTurns = EmptyFn

\* The session routes are not mounted.
SessionIdle ==
    /\ csSessions = EmptyFn
    /\ csOut = EmptyFn

\* The worker was not started: no queue, no connection to the table.
WorkerIdle ==
    /\ wqQueue = <<>>
    /\ wqUnfinished = 0
    /\ wqPut = 0
    /\ wqWorker = EmptyFn
    /\ wqRows = EmptyFn

InitSearch == SearchInit /\ DispatchInit /\ TurnIdle /\ FaissInit /\ UsageInit /\ IndexInit /\ StoreInit /\ UpsertIdle /\ GateIdle /\ SessionIdle /\ WorkerIdle

SpecSearch == InitSearch /\ [][SearchNext]_vars

InitDispatch == DispatchInit /\ SearchIdle /\ TurnIdle /\ FaissInit /\ UsageInit /\ IndexInit /\ StoreInit /\ UpsertIdle /\ GateIdle /\ SessionIdle /\ WorkerIdle

SpecDispatch == InitDispatch /\ [][DispatchNext]_vars

InitTurn == TurnInit /\ SearchIdle /\ DispatchIdle /\ FaissInit /\ UsageInit /\ IndexInit /\ StoreInit /\ UpsertIdle /\ GateIdle /\ SessionIdle /\ WorkerIdle

SpecTurn == InitTurn /\ [][TurnNext]_vars

InitFaiss == FaissInit /\ SearchIdle /\ DispatchIdle /\ TurnIdle /\ UsageInit /\ IndexInit /\ StoreInit /\ UpsertIdle /\ GateIdle /\ SessionIdle /\ WorkerIdle

SpecFaiss == InitFaiss /\ [][FaissNext]_vars

\* The turn on the first day, token_usage empty or holding that day's row
\* of one user.
InitUsage == UsageInit /\ SearchIdle /\ DispatchIdle /\ TurnIdle /\ FaissInit /\ IndexInit /\ StoreInit /\ UpsertIdle /\ GateIdle /\ SessionIdle /\ WorkerIdle

SpecUsage == InitUsage /\ [][UsageNext]_vars

InitIndex ==
    IndexInit /\ SearchIdle /\ DispatchIdle /\ TurnIdle /\ FaissInit /\ UsageInit /\ StoreInit /\ UpsertIdle /\ GateIdle /\ SessionIdle /\ WorkerIdle

SpecIndex == InitIndex /\ [][IndexNext]_vars

InitReindex ==
    ReindexInit /\ SearchIdle /\ DispatchIdle /\ TurnIdle /\ FaissInit /\ UsageInit /\ StoreInit /\ UpsertIdle /\ GateIdle /\ SessionIdle /\ WorkerIdle

SpecReindex == InitReindex /\ [][ReindexNext]_vars

InitTurnFirstDay ==
    /\ TurnInit
    /\ today = 1
    /\ DOMAIN usage \subseteq {<<"a", 1, 1>>}
    /\ SearchIdle /\ DispatchIdle /\ FaissInit /\ UsageInit /\ IndexInit /\ StoreInit /\ UpsertIdle /\ GateIdle /\ SessionIdle /\ WorkerIdle

\* Every awaited call of the turn returns or raises, and the event loop
\* resumes the coroutine.
FairSpecTurn == InitTurnFirstDay /\ [][TurnNext]_vars /\ WF_vars(TurnNext)

InitPersist == PersistInit /\ SearchIdle /\ DispatchIdle /\ TurnIdle /\ UsageInit /\ IndexInit /\ StoreInit /\ UpsertIdle /\ GateIdle /\ SessionIdle /\ WorkerIdle

SpecPersist == InitPersist /\ [][PersistNext]_vars

InitStore == StoreInit /\ SearchIdle /\ DispatchIdle /\ TurnIdle /\ FaissInit /\ UsageInit /\ IndexInit /\ UpsertIdle /\ GateIdle /\ SessionIdle /\ WorkerIdle

SpecStore == InitStore /\ [][StoreNext]_vars

InitUpserts == UpsertInit /\ SearchIdle /\ DispatchIdle /\ TurnIdle /\ FaissInit /\ UsageInit /\ IndexInit /\ StoreInit /\ GateIdle /\ SessionIdle /\ WorkerIdle

SpecUpserts == InitUpserts /\ [][UpsertNext]_vars

InitGate == GateInit /\ SearchIdle /\ DispatchIdle /\ TurnIdle /\ FaissInit /\ UsageInit /\ IndexInit /\ StoreInit /\ UpsertIdle /\ SessionIdle /\ WorkerIdle

SpecGate == InitGate /\ [][GateNext]_vars

InitSessions == SessionInit /\ SearchIdle /\ DispatchIdle /\ TurnIdle /\ FaissInit /\ UsageInit /\ IndexInit /\ StoreInit /\ UpsertIdle /\ GateIdle /\ WorkerIdle

SpecSessions == InitSessions /\ [][SessionNext]_vars

InitWorker == WorkerInit /\ SearchIdle /\ DispatchIdle /\ TurnIdle /\ FaissInit /\ UsageInit /\ IndexInit /\ StoreInit /\ UpsertIdle /\ GateIdle /\ SessionIdle

SpecWorker == InitWorker /\ [][WorkerNext]_vars

=========================================================================
